---- MODULE Spec2Model ----
(***************************************************************************)
(* Account registry, proxy wiring and live-session tracker of xhs-mcp.     *)
(*                                                                         *)
(* Strings that the code builds by formatting (account keys, file paths,   *)
(* proxy URLs) are sequences of string tokens, built the way fmt.Sprintf   *)
(* and filepath.Join build them; the empty string is <<>>.  Plain names    *)
(* and proxy field values that are only stored and compared are TLA+       *)
(* strings.  A time.Time is its instant, 0 being the zero time.            *)
(***************************************************************************)
EXTENDS Integers, Sequences, FiniteSets, TLC

\* ------------------------------------------------------------------ bounds
MaxID == 2              \* Create is explored while nextID <= MaxID
MaxAccounts == 2        \* and while the registry holds fewer accounts than this
MaxClock == 1           \* instants time.Now() can return: 1..MaxClock
MaxWriteFailures == 1   \* store writes that may fail in one behaviour
NumThreads == 2         \* requests served at the same time
MaxBrowsers == 3        \* Browsers launched in one behaviour
MaxCalls == 1           \* calls of browser.New in one behaviour
MaxStops == 3           \* calls of a bridge's stop function by one thread

\* ------------------------------------------------------- string helpers
Digits == <<"0", "1", "2", "3", "4", "5", "6", "7", "8", "9">>

RECURSIVE Itoa(_)
\* %d of a non-negative int
Itoa(n) == IF n < 10 THEN <<Digits[n + 1]>>
           ELSE Itoa(n \div 10) \o <<Digits[(n % 10) + 1]>>

NextIDAfterCreateSkipped(n) == n
\* m.nextID++
NextIDAfterCreate(n) == n + 1

\* fmt.Sprintf("acc_%d", id)
AccountKey(id) == <<"acc_">> \o Itoa(id)

DefaultKey == <<"default">>

\* cookies.GetCookiesFilePathForAccount, COOKIES_BASE_DIR unset
GetCookiesFilePathForAccount(accountID) ==
    LET a == IF accountID = <<>> \/ accountID = DefaultKey
             THEN DefaultKey ELSE accountID
    IN  <<"accounts", "/">> \o a \o <<"/", "cookies.json">>

profileBase == "profiles"

\* filepath.Join(m.profileBase, key, "profile")
ProfilePathFor(key) == <<profileBase, "/">> \o key \o <<"/", "profile">>

\* fmt.Sprintf("%s://%s:%s@%s:%d", ...) or fmt.Sprintf("%s://%s:%d", ...)
ProxyURL(typ, user, pass, host, port) ==
    IF user # "" \/ pass # ""
    THEN <<typ, "://", user, ":", pass, "@", host, ":">> \o Itoa(port)
    ELSE <<typ, "://", host, ":">> \o Itoa(port)

\* url.Parse(raw).Scheme
Scheme(raw) == IF Len(raw) >= 2 /\ raw[2] = "://" THEN raw[1] ELSE ""

\* ------------------------------------------------------------ input sets
SocksRaw == ProxyURL("socks5", "u", "p", "h", 1080)
HttpRaw == ProxyURL("http", "", "", "h", 8080)

\* session.RandomDesktopFingerprint draws from fixed pools
FingerprintPool == {"fpWin", "fpMac"}
NoFingerprint == "nil"

EmptyCfg == [Type |-> "", Host |-> "", Port |-> 0, User |-> "", Pass |-> "", Raw |-> <<>>]

VARIABLES
    accounts,       \* Manager.accounts: id -> Account
    keyIndex,       \* Manager.keyIndex: key -> id of the Account it points to
    nextID,         \* Manager.nextID
    store,          \* the JSON file at storePath
    writeFailures,  \* number of store writes that failed so far
    created,        \* accounts returned by Create on this registry instance
    issued,         \* IDs handed out by Create since the store was empty
    lastOp,         \* the registry call that returned last
    lastLaunch,     \* what the last browser launch was given
    liveByAccount,  \* XiaohongshuService.liveByAccount: key -> Browser
    liveBrowsers,   \* XiaohongshuService.liveBrowsers
    liveMu,         \* the request holding XiaohongshuService.liveMu, 0 when free
    browsers,       \* the Browser instances launched so far, by number
    thr,            \* per request thread: where it is in its handler
    installed,      \* the browsers stored by setLiveBrowser, in order
    disk,           \* the cookie files and profile directories that exist
    listed,         \* the Accounts a caller holds from the last List
    launchers,      \* the launchers browser.New has made, by number
    newCall,        \* the call of browser.New in progress or returned last
    inst,           \* the Browser instance Close is called on
    socksBridge,    \* a bridge of StartSocksBridge and the calls of its stop
    mgr,            \* Manager.mu and the calls that go through it, per thread
    login           \* the start-login request being served or served last

regVars == <<accounts, keyIndex, nextID, store, writeFailures>>
\* what no call of the registry, the tracker or the facade touches
otherVars == <<listed, launchers, newCall, inst, socksBridge, mgr, login>>
liveVars == <<liveByAccount, liveBrowsers, liveMu, browsers, thr, installed>>
vars == <<accounts, keyIndex, nextID, store, writeFailures, created, issued, lastOp, lastLaunch,
          liveByAccount, liveBrowsers, liveMu, browsers, thr, installed, disk, listed, launchers,
          newCall, inst, socksBridge, mgr, login>>

\* ------------------------------------------------------------ persistence
NoFile == [exists |-> FALSE, next_id |-> 0, accounts |-> {}]

OptionalFields == {"name", "proxy", "proxy_type", "proxy_host", "proxy_port",
                   "proxy_user", "proxy_pass", "fingerprint"}
AlwaysFields == {"id", "key", "cookie_path", "profile_path", "logged_in", "last_login"}

FieldValue(acc, f) ==
    CASE f = "id" -> acc.ID
      [] f = "key" -> acc.Key
      [] f = "name" -> acc.Name
      [] f = "proxy" -> acc.Proxy
      [] f = "proxy_type" -> acc.ProxyType
      [] f = "proxy_host" -> acc.ProxyHost
      [] f = "proxy_port" -> acc.ProxyPort
      [] f = "proxy_user" -> acc.ProxyUser
      [] f = "proxy_pass" -> acc.ProxyPass
      [] f = "fingerprint" -> acc.Fingerprint
      [] f = "cookie_path" -> acc.CookiePath
      [] f = "profile_path" -> acc.ProfilePath
      [] f = "logged_in" -> acc.LoggedIn
      [] f = "last_login" -> acc.LastLogin

\* the zero value that `omitempty` leaves out
IsEmptyField(acc, f) ==
    CASE f = "name" -> acc.Name = ""
      [] f = "proxy" -> acc.Proxy = <<>>
      [] f = "proxy_type" -> acc.ProxyType = ""
      [] f = "proxy_host" -> acc.ProxyHost = ""
      [] f = "proxy_port" -> acc.ProxyPort = 0
      [] f = "proxy_user" -> acc.ProxyUser = ""
      [] f = "proxy_pass" -> acc.ProxyPass = ""
      [] f = "fingerprint" -> acc.Fingerprint = NoFingerprint
      [] OTHER -> FALSE

MarshalAccountNoLastLogin(acc) ==
    LET fs == (AlwaysFields \ {"last_login"})
              \cup {f \in OptionalFields : ~IsEmptyField(acc, f)}
    IN  [f \in fs |-> FieldValue(acc, f)]

\* json.Marshal of an Account: omitempty fields are left out when zero
\* (omitempty has no effect on the time.Time struct, so last_login stays)
MarshalAccount(acc) ==
    LET fs == AlwaysFields \cup {f \in OptionalFields : ~IsEmptyField(acc, f)}
    IN  [f \in fs |-> FieldValue(acc, f)]

JSONField(obj, f, zero) == IF f \in DOMAIN obj THEN obj[f] ELSE zero

\* json.Unmarshal into an Account: absent fields keep the zero value
UnmarshalAccount(obj) ==
    [ID          |-> JSONField(obj, "id", 0),
     Key         |-> JSONField(obj, "key", <<>>),
     Name        |-> JSONField(obj, "name", ""),
     Proxy       |-> JSONField(obj, "proxy", <<>>),
     ProxyType   |-> JSONField(obj, "proxy_type", ""),
     ProxyHost   |-> JSONField(obj, "proxy_host", ""),
     ProxyPort   |-> JSONField(obj, "proxy_port", 0),
     ProxyUser   |-> JSONField(obj, "proxy_user", ""),
     ProxyPass   |-> JSONField(obj, "proxy_pass", ""),
     Fingerprint |-> JSONField(obj, "fingerprint", NoFingerprint),
     CookiePath  |-> JSONField(obj, "cookie_path", <<>>),
     ProfilePath |-> JSONField(obj, "profile_path", <<>>),
     LoggedIn    |-> JSONField(obj, "logged_in", FALSE),
     LastLogin   |-> JSONField(obj, "last_login", 0)]

\* collectAccounts: the accounts of the map, in the map's (unspecified)
\* iteration order; the JSON array is kept as the set of its elements
collectAccounts(m) == {m[i] : i \in DOMAIN m}

\* the document saveLocked writes
StoreDocument(accs, nid) ==
    [exists |-> TRUE, next_id |-> nid,
     accounts |-> {MarshalAccount(a) : a \in collectAccounts(accs)}]

Put(f, k, v) == [x \in DOMAIN f \cup {k} |-> IF x = k THEN v ELSE f[x]]
Remove(f, k) == [x \in DOMAIN f \ {k} |-> f[x]]

EmptyMap == [x \in {} |-> 0]

RECURSIVE LoadAccounts(_, _)
\* the loop of load over payload.Accounts
LoadAccounts(objs, m) ==
    IF objs = {} THEN m
    ELSE LET o == CHOOSE x \in objs : TRUE
             acc == UnmarshalAccount(o)
         IN  LoadAccounts(objs \ {o},
                 [accounts |-> Put(m.accounts, acc.ID, acc),
                  keyIndex |-> Put(m.keyIndex, acc.Key, acc.ID),
                  nextID   |-> IF acc.ID >= m.nextID THEN acc.ID + 1 ELSE m.nextID])

loadStoredNextID(st) ==
    LET fresh == [accounts |-> EmptyMap, keyIndex |-> EmptyMap, nextID |-> 1]
    IN  IF ~st.exists THEN fresh
        ELSE [LoadAccounts(st.accounts, fresh) EXCEPT
                 !.nextID = IF st.next_id > 0 THEN st.next_id ELSE 1]
\* NewManager followed by load: the registry a fresh instance starts with
load(st) ==
    LET fresh == [accounts |-> EmptyMap, keyIndex |-> EmptyMap, nextID |-> 1]
    IN  IF ~st.exists THEN fresh
        ELSE LoadAccounts(st.accounts,
                 [fresh EXCEPT !.nextID = IF st.next_id > 0 THEN st.next_id ELSE 1])

storePath == "accounts.json"

\* saveLocked on the registry as it will be after the call; ok = FALSE is
\* MkdirAll or WriteFile returning an error, which leaves the file as it was
saveLocked(accs, nid, ok) ==
    /\ ok \/ (storePath # "" /\ writeFailures < MaxWriteFailures)
    /\ store' = IF ok /\ storePath # "" THEN StoreDocument(accs, nid) ELSE store
    /\ writeFailures' = IF ok THEN writeFailures ELSE writeFailures + 1

\* ------------------------------------------------------- registry calls
\* lastLaunch when the last step launched no browser
NoLaunch ==
    [id |-> 0, err |-> FALSE, stored |-> <<>>, proxy |-> <<>>, bridge |-> FALSE,
     override |-> "nil", isHeadless |-> TRUE, headless |-> TRUE]

NoOp == [op |-> "none", id |-> 0, key |-> <<>>, err |-> FALSE, was |-> FALSE, same |-> FALSE]

Call(op, id, key, err, was, same) ==
    [op |-> op, id |-> id, key |-> key, err |-> err, was |-> was, same |-> same]

ReturnedNil(saveErr) == FALSE
\* return acc, m.saveLocked(): the error the call returns is the one
\* saveLocked returned
Returned(saveErr) == saveErr

Identity(acc) ==
    [ID |-> acc.ID, Key |-> acc.Key, CookiePath |-> acc.CookiePath, ProfilePath |-> acc.ProfilePath]

\* the Account literal of Create
NewAccount(id, proxy, name, fp) ==
    LET key == AccountKey(id)
    IN  [ID |-> id, Key |-> key, Name |-> name, Proxy |-> proxy,
         ProxyType |-> "", ProxyHost |-> "", ProxyPort |-> 0,
         ProxyUser |-> "", ProxyPass |-> "",
         Fingerprint |-> fp,
         CookiePath |-> GetCookiesFilePathForAccount(key),
         ProfilePath |-> ProfilePathFor(key),
         LoggedIn |-> FALSE, LastLogin |-> 0]

\* the registry part of Create; the account is returned whatever saveLocked returns
DoCreate(proxy, name, fp, ok) ==
    LET id == nextID
        acc == NewAccount(id, proxy, name, fp)
    IN  /\ accounts' = Put(accounts, id, acc)
        /\ keyIndex' = Put(keyIndex, acc.Key, id)
        /\ nextID' = NextIDAfterCreate(nextID)
        /\ saveLocked(accounts', nextID', ok)

\* fp is the draw of session.RandomDesktopFingerprint
Create(proxy, name, fp) ==
    /\ nextID <= MaxID
    /\ Cardinality(DOMAIN accounts) < MaxAccounts
    /\ \E ok \in BOOLEAN :
          /\ DoCreate(proxy, name, fp, ok)
          /\ created' = Append(created, Identity(NewAccount(nextID, proxy, name, fp)))
          /\ issued' = Append(issued, nextID)
          /\ lastOp' = Call("Create", nextID, AccountKey(nextID), Returned(~ok), FALSE, FALSE)
    /\ lastLaunch' = NoLaunch
    /\ UNCHANGED <<liveVars, disk, otherVars>>

UpdatedProxyKeepLogin(acc, proxy, name) ==
    [acc EXCEPT !.Proxy = proxy,
                !.Name = IF name # "" THEN name ELSE acc.Name,
                !.LoggedIn = IF proxy = acc.Proxy THEN acc.LoggedIn ELSE FALSE]

\* the assignments of UpdateProxy
UpdatedProxy(acc, proxy, name) ==
    [acc EXCEPT !.Proxy = proxy,
                !.Name = IF name # "" THEN name ELSE acc.Name,
                !.LoggedIn = FALSE]

NotFound(op, id, key) ==
    /\ lastOp' = Call(op, id, key, TRUE, FALSE, FALSE)
    /\ lastLaunch' = NoLaunch
    /\ UNCHANGED <<liveVars, disk, otherVars>>
    /\ UNCHANGED <<regVars, created, issued>>

UpdateProxy(id, proxy, name) ==
    IF id \notin DOMAIN accounts THEN NotFound("UpdateProxy", id, <<>>)
    ELSE \E ok \in BOOLEAN :
          /\ accounts' = [accounts EXCEPT ![id] = UpdatedProxy(accounts[id], proxy, name)]
          /\ saveLocked(accounts', nextID, ok)
          /\ lastOp' = Call("UpdateProxy", id, <<>>, Returned(~ok), accounts[id].LoggedIn,
                             proxy = accounts[id].Proxy /\ name \in {"", accounts[id].Name})
          /\ lastLaunch' = NoLaunch
          /\ UNCHANGED <<liveVars, disk, otherVars>>
          /\ UNCHANGED <<keyIndex, nextID, created, issued>>

RenamedResetLogin(acc, name) == [acc EXCEPT !.Name = name, !.LoggedIn = FALSE]

\* the assignment of SetName
Renamed(acc, name) == [acc EXCEPT !.Name = name]

SetName(id, name) ==
    IF id \notin DOMAIN accounts THEN NotFound("SetName", id, <<>>)
    ELSE \E ok \in BOOLEAN :
          /\ accounts' = [accounts EXCEPT ![id] = Renamed(accounts[id], name)]
          /\ saveLocked(accounts', nextID, ok)
          /\ lastOp' = Call("SetName", id, <<>>, Returned(~ok), accounts[id].LoggedIn,
                             name = accounts[id].Name)
          /\ lastLaunch' = NoLaunch
          /\ UNCHANGED <<liveVars, disk, otherVars>>
          /\ UNCHANGED <<keyIndex, nextID, created, issued>>

\* cfg.Raw as ApplyProxyConfig completes it
SynthesizedRaw(cfg) ==
    IF cfg.Raw = <<>> /\ cfg.Type # "" /\ cfg.Type # "direct" /\ cfg.Host # "" /\ cfg.Port > 0
    THEN ProxyURL(cfg.Type, cfg.User, cfg.Pass, cfg.Host, cfg.Port)
    ELSE cfg.Raw

AppliedProxyConfigKeepLogin(acc, cfg) ==
    [acc EXCEPT !.Proxy = SynthesizedRaw(cfg),
                !.ProxyType = cfg.Type, !.ProxyHost = cfg.Host, !.ProxyPort = cfg.Port,
                !.ProxyUser = cfg.User, !.ProxyPass = cfg.Pass,
                !.LoggedIn = IF SynthesizedRaw(cfg) = acc.Proxy THEN acc.LoggedIn ELSE FALSE]

AppliedProxyConfigNewFingerprint(acc, cfg) ==
    [acc EXCEPT !.Proxy = SynthesizedRaw(cfg),
                !.ProxyType = cfg.Type, !.ProxyHost = cfg.Host, !.ProxyPort = cfg.Port,
                !.ProxyUser = cfg.User, !.ProxyPass = cfg.Pass,
                !.Fingerprint = IF SynthesizedRaw(cfg) = acc.Proxy THEN acc.Fingerprint ELSE "fpWin",
                !.LoggedIn = FALSE]

\* the assignments of ApplyProxyConfig
AppliedProxyConfig(acc, cfg) ==
    [acc EXCEPT !.Proxy = SynthesizedRaw(cfg),
                !.ProxyType = cfg.Type, !.ProxyHost = cfg.Host, !.ProxyPort = cfg.Port,
                !.ProxyUser = cfg.User, !.ProxyPass = cfg.Pass,
                !.LoggedIn = FALSE]

ApplyProxyConfig(id, cfg) ==
    IF id \notin DOMAIN accounts THEN NotFound("ApplyProxyConfig", id, <<>>)
    ELSE \E ok \in BOOLEAN :
          /\ accounts' = [accounts EXCEPT ![id] = AppliedProxyConfig(accounts[id], cfg)]
          /\ saveLocked(accounts', nextID, ok)
          /\ lastOp' = Call("ApplyProxyConfig", id, <<>>, Returned(~ok), accounts[id].LoggedIn,
                             AppliedProxyConfig(accounts[id], cfg) = [accounts[id] EXCEPT !.LoggedIn = FALSE])
          /\ lastLaunch' = NoLaunch
          /\ UNCHANGED <<liveVars, disk, otherVars>>
          /\ UNCHANGED <<keyIndex, nextID, created, issued>>

MarkedLoggedInToggled(acc, now) == [acc EXCEPT !.LoggedIn = ~acc.LoggedIn, !.LastLogin = now]

\* the assignments of MarkLoggedIn; now is time.Now()
MarkedLoggedIn(acc, now) == [acc EXCEPT !.LoggedIn = TRUE, !.LastLogin = now]

\* the registry part of MarkLoggedIn; the result of saveLocked is dropped
DoMarkLoggedIn(key) ==
    IF key \notin DOMAIN keyIndex THEN UNCHANGED regVars
    ELSE \E now \in 1..MaxClock, ok \in BOOLEAN :
          /\ accounts' = [accounts EXCEPT ![keyIndex[key]] = MarkedLoggedIn(accounts[keyIndex[key]], now)]
          /\ saveLocked(accounts', nextID, ok)
          /\ UNCHANGED <<keyIndex, nextID>>

MarkLoggedIn(key) ==
    /\ DoMarkLoggedIn(key)
    /\ lastOp' = Call("MarkLoggedIn", IF key \in DOMAIN keyIndex THEN keyIndex[key] ELSE 0, key, FALSE,
                       key \in DOMAIN keyIndex /\ accounts[keyIndex[key]].LoggedIn,
                       lastOp.op = "MarkLoggedIn" /\ lastOp.key = key)
    /\ lastLaunch' = NoLaunch
    /\ UNCHANGED <<liveVars, disk, otherVars>>
    /\ UNCHANGED <<created, issued>>

\* os.Remove(name): the file is gone afterwards; a missing file is an error
osRemove(d, name) == [disk |-> d \ {name}, err |-> name \notin d]

IsPrefix(p, q) == Len(p) <= Len(q) /\ SubSeq(q, 1, Len(p)) = p

\* os.RemoveAll(path): path and everything below it is gone; a missing
\* path is no error
osRemoveAll(d, path) == [disk |-> {f \in d : ~IsPrefix(path, f)}, err |-> FALSE]

DeleteResultStrict(removeErr, removeAllErr, saveErr) == removeErr \/ removeAllErr \/ saveErr
\* _ = os.Remove(...); _ = os.RemoveAll(...); return m.saveLocked()
DeleteResult(removeErr, removeAllErr, saveErr) == saveErr

DeletedKeyKept(idx, key) == idx
\* delete(m.keyIndex, acc.Key)
DeletedKey(idx, key) == Remove(idx, key)

\* Delete; removing the cookie file and the profile directory ignores errors;
\* lastOp.same tells that there was neither a cookie file nor a profile directory
Delete(id) ==
    IF id \notin DOMAIN accounts THEN NotFound("Delete", id, <<>>)
    ELSE \E ok \in BOOLEAN :
          LET rm == osRemove(disk, accounts[id].CookiePath)
              rmAll == osRemoveAll(rm.disk, accounts[id].ProfilePath)
          IN  /\ accounts' = Remove(accounts, id)
              /\ keyIndex' = DeletedKey(keyIndex, accounts[id].Key)
              /\ disk' = rmAll.disk
              /\ saveLocked(accounts', nextID, ok)
              /\ lastOp' = Call("Delete", id, accounts[id].Key, DeleteResult(rm.err, rmAll.err, ~ok),
                                 accounts[id].LoggedIn,
                                 rm.err /\ rmAll.disk = disk)
          /\ lastLaunch' = NoLaunch
          /\ UNCHANGED <<liveVars, otherVars>>
          /\ UNCHANGED <<nextID, created, issued>>

\* the process restarts: NewManager builds a fresh registry from the store
Reload ==
    /\ accounts' = load(store).accounts
    /\ keyIndex' = load(store).keyIndex
    /\ nextID' = load(store).nextID
    /\ created' = <<>>
    /\ lastOp' = Call("Reload", 0, <<>>, FALSE, FALSE, FALSE)
    /\ lastLaunch' = NoLaunch
    /\ UNCHANGED <<liveVars, disk, otherVars>>
    /\ UNCHANGED <<store, writeFailures, issued>>

NoBrowser == 0
Threads == 1..NumThreads
\* a request thread that is serving no request
Idle == [pc |-> "idle", key |-> <<>>, b |-> NoBrowser, own |-> FALSE]

\* no launcher: the nil *launcher.Launcher
NoLauncher == 0
\* the nil error
NilErr == "nil"
\* for attempt := 1; attempt <= 2; attempt++
LaunchAttempts == 2

\* a context without a deadline; otherwise a context is the number of
\* seconds left until it is done, 0 when it is cancelled or has expired
NoDeadline == -1
\* context.WithTimeout(context.Background(), 30*time.Second)
AttemptTimeout == 30

NoCall ==
    [pc |-> "idle", n |-> 0, dir |-> <<>>, attempt |-> 0, l |-> NoLauncher, err |-> NilErr,
     cleanupNeeded |-> FALSE, browser |-> NoLauncher, left |-> NoDeadline, need |-> 0,
     connected |-> FALSE, cookie |-> "noPath", loaded |-> FALSE, bridge |-> "noop",
     cancelled |-> FALSE, listening |-> FALSE]

\* no Browser instance yet; browser says whether the rod handle is set,
\* bridge is the stop function: "nil", the "noop" func(){} of New, the stop
\* of a socks bridge, which "stops", or a function that is "stuck"
NoInst ==
    [n |-> 0, browser |-> FALSE, launcher |-> NoLauncher, bridge |-> "nil", cleanup |-> FALSE,
     pc |-> "none", panicked |-> FALSE, viaDone |-> FALSE]

\* no bridge yet; once is the sync.Once of stop, serve the goroutine that
\* calls server.Serve, pc the callers of stop and returns how each of
\* their calls came back: it "ran" the function, "waited" for the call
\* running it, or "skipped" it
NoBridge ==
    [state |-> "none", once |-> "fresh", shutdowns |-> 0, lnCloses |-> 0, serve |-> "notStarted",
     pc |-> [t \in Threads |-> "idle"], returns |-> [t \in Threads |-> <<>>]]

\* Manager.mu unlocked (0, else the thread holding it), every thread idle
NoMgr ==
    [mu |-> 0, pc |-> [t \in Threads |-> "idle"], acc |-> [t \in Threads |-> 0],
     arg |-> [t \in Threads |-> EmptyCfg], proxy |-> [t \in Threads |-> <<>>]]

\* no start-login request yet
NoLogin == [pc |-> "idle", id |-> 0, created |-> FALSE, proxy |-> <<>>]

Init ==
    /\ accounts = EmptyMap
    /\ keyIndex = EmptyMap
    /\ nextID = 1
    /\ store = NoFile
    /\ writeFailures = 0
    /\ created = <<>>
    /\ issued = <<>>
    /\ lastOp = NoOp
    /\ lastLaunch = NoLaunch
    /\ liveByAccount = EmptyMap
    /\ liveBrowsers = {}
    /\ liveMu = 0
    /\ browsers = <<>>
    /\ thr = [t \in Threads |-> Idle]
    /\ installed = <<>>
    /\ disk = {}
    /\ listed = EmptyMap
    /\ launchers = <<>>
    /\ newCall = NoCall
    /\ inst = NoInst
    /\ socksBridge = NoBridge
    /\ mgr = NoMgr
    /\ login = NoLogin

IDs == 1..MaxID
KeyInputs == {AccountKey(i) : i \in IDs} \cup {DefaultKey}
Names == {"", "n1"}
RawProxies == {<<>>, SocksRaw}

Next ==
    \/ \E p \in RawProxies, n \in Names : Create(p, n, "fpWin")
    \/ \E id \in IDs, p \in RawProxies, n \in Names : UpdateProxy(id, p, n)
    \/ \E id \in IDs, n \in Names : SetName(id, n)
    \/ \E id \in IDs : ApplyProxyConfig(id, EmptyCfg)
    \/ \E k \in KeyInputs : MarkLoggedIn(k)
    \/ \E id \in IDs : Delete(id)
    \/ Reload

Spec == Init /\ [][Next]_vars

\* ------------------------------------------------------ browser launch
\* the browser.Config that newBrowser fills from the resolved account
BrowserConfig(acc) ==
    [Proxy |-> acc.Proxy, ProxyType |-> acc.ProxyType, ProxyHost |-> acc.ProxyHost,
     ProxyPort |-> acc.ProxyPort, ProxyUser |-> acc.ProxyUser, ProxyPass |-> acc.ProxyPass,
     CookiePath |-> acc.CookiePath, UserDataDir |-> acc.ProfilePath,
     Fingerprint |-> acc.Fingerprint]

\* ports the OS can assign to net.Listen("tcp", "127.0.0.1:0")
BridgePorts == {40001}

\* proxybridge.StartSocksBridge: listenOk = FALSE is net.Listen failing
StartSocksBridge(rawurl, listenOk, port) ==
    IF Scheme(rawurl) \notin {"socks5", "socks5h"} \/ ~listenOk
    THEN [err |-> TRUE, local |-> <<>>]
    ELSE [err |-> FALSE, local |-> <<"http", "://", "127.0.0.1", ":">> \o Itoa(port)]

\* browser.New up to the launcher: the proxy Chrome is started with
\* (proxyForChrome) and whether a bridge was started for it
ProxyForChrome(cfg, listenOk, port) ==
    IF cfg.ProxyType = "" THEN [err |-> FALSE, proxy |-> cfg.Proxy, bridge |-> FALSE]
    ELSE IF cfg.ProxyType = "direct" THEN [err |-> FALSE, proxy |-> <<>>, bridge |-> FALSE]
    ELSE IF cfg.ProxyHost # "" /\ cfg.ProxyPort > 0
         THEN LET url == ProxyURL(cfg.ProxyType, cfg.ProxyUser, cfg.ProxyPass,
                                  cfg.ProxyHost, cfg.ProxyPort)
                  br == StartSocksBridge(url, listenOk, port)
              IN  IF cfg.ProxyType = "socks5"
                  THEN IF br.err THEN [err |-> TRUE, proxy |-> <<>>, bridge |-> FALSE]
                       ELSE [err |-> FALSE, proxy |-> br.local, bridge |-> TRUE]
                  ELSE [err |-> FALSE, proxy |-> url, bridge |-> FALSE]
         ELSE [err |-> FALSE, proxy |-> cfg.Proxy, bridge |-> FALSE]

\* os.MkdirAll(path)
MkdirAll(d, path) == d \cup {path}

\* newBrowser for the session of an existing account, up to the launcher
Launch(id) ==
    /\ id \in DOMAIN accounts
    /\ \E listenOk \in BOOLEAN, port \in BridgePorts :
          LET w == ProxyForChrome(BrowserConfig(accounts[id]), listenOk, port)
          IN  lastLaunch' = [NoLaunch EXCEPT !.id = id, !.err = w.err,
                                             !.stored = accounts[id].Proxy,
                                             !.proxy = w.proxy, !.bridge = w.bridge]
    /\ lastOp' = Call("newBrowser", id, accounts[id].Key, FALSE, accounts[id].LoggedIn, FALSE)
    /\ disk' = MkdirAll(disk, accounts[id].ProfilePath)
    /\ UNCHANGED <<regVars, created, issued, liveVars, otherVars>>

RECURSIVE Atoi(_)
\* strconv.Atoi of a string of digits
Atoi(ds) ==
    IF ds = <<>> THEN 0
    ELSE 10 * Atoi(SubSeq(ds, 1, Len(ds) - 1))
         + (CHOOSE v \in 0..9 : Digits[v + 1] = ds[Len(ds)])

\* url.Parse of a proxy URL: Scheme, User.Username(), User.Password(),
\* Hostname() and Port() of scheme://[user:pass@]host:port
ParseProxyURL(raw) ==
    LET hasUser == Len(raw) >= 6 /\ raw[6] = "@"
        h == IF hasUser THEN 7 ELSE 3
    IN  [Scheme |-> Scheme(raw),
         HasUser |-> hasUser,
         User |-> IF hasUser THEN raw[3] ELSE "",
         Pass |-> IF hasUser THEN raw[5] ELSE "",
         Hostname |-> IF Len(raw) >= h THEN raw[h] ELSE "",
         Port |-> IF Len(raw) >= h + 2 THEN SubSeq(raw, h + 2, Len(raw)) ELSE <<>>]

\* buildProxyConfig: the structured fields are filled from the raw URL
\* only when no type is given
buildProxyConfig(raw, typ, host, port, user, pass) ==
    LET cfg == [Type |-> typ, Host |-> host, Port |-> port, User |-> user, Pass |-> pass, Raw |-> raw]
        u == ParseProxyURL(raw)
    IN  IF typ = "" /\ raw # <<>>
        THEN [cfg EXCEPT !.Type = IF u.Scheme # "" THEN u.Scheme ELSE typ,
                         !.Host = IF u.Hostname # "" THEN u.Hostname ELSE host,
                         !.Port = IF u.Port # <<>> THEN Atoi(u.Port) ELSE port,
                         !.User = IF u.HasUser THEN u.User ELSE user,
                         !.Pass = IF u.HasUser THEN u.Pass ELSE pass]
        ELSE cfg

\* a proxy URL of a scheme that is none of direct, http, https, socks5
FtpRaw == ProxyURL("ftp", "", "", "h", 2121)
SupportedSchemes == {"direct", "http", "https", "socks5"}

SocksCfg == [Type |-> "socks5", Host |-> "h", Port |-> 1080, User |-> "u", Pass |-> "p", Raw |-> <<>>]
ProxyConfigs ==
    {EmptyCfg,
     [EmptyCfg EXCEPT !.Raw = SocksRaw],
     SocksCfg,
     [SocksCfg EXCEPT !.User = "", !.Pass = ""],
     [SocksCfg EXCEPT !.Host = "", !.Port = 0, !.Raw = SocksRaw],
     [EmptyCfg EXCEPT !.Type = "http", !.Host = "h", !.Port = 8080],
     [EmptyCfg EXCEPT !.Type = "direct"],
     buildProxyConfig(SocksRaw, "", "", 0, "", ""),
     [EmptyCfg EXCEPT !.Raw = FtpRaw]}
ProxyRaws == {<<>>, SocksRaw, HttpRaw}

\* one account, every way of storing a proxy for it, and launches
NextProxy ==
    \/ nextID = 1 /\ \E p \in ProxyRaws, fp \in FingerprintPool : Create(p, "", fp)
    \/ \E p \in ProxyRaws, n \in Names : UpdateProxy(1, p, n)
    \/ \E n \in Names : SetName(1, n)
    \/ \E cfg \in ProxyConfigs : ApplyProxyConfig(1, cfg)
    \/ MarkLoggedIn(AccountKey(1))
    \/ Launch(1)
    \/ Reload

SpecProxy == Init /\ [][NextProxy]_vars

\* ---------------------------------------------------- live-session tracker
\* One Browser is a record: the account key it was launched for, whether it
\* has a window, how often Close ran on it, whether something used it after
\* Close, and where the goroutine of StartVisibleWindow is on its page.
\* liveBrowsers is only ever appended to, so it is kept as a set.

\* a Browser that browser.New returned; headless is false for a window
\* and configs.IsHeadless(), true unless the flag says otherwise, for the rest
NewBrowserFor(key, visible) ==
    [key |-> key, visible |-> visible, closes |-> 0, misused |-> FALSE, task |-> "none",
     wait |-> "none"]

IsClosed(b) == browsers[b].closes > 0

\* Browser.Close
Close(bs, b) == [bs EXCEPT ![b].closes = @ + 1]

\* a page of b is opened or driven, or its cookies are read: the use is
\* one after Close when Close has run on b
Use(bs, b) == IF bs[b].closes > 0 THEN [bs EXCEPT ![b].misused = TRUE] ELSE bs

\* s.liveByAccount[accountKey], nil when there is no entry
getLiveBrowser(key) ==
    IF key \in DOMAIN liveByAccount THEN liveByAccount[key] ELSE NoBrowser

LiveMuIgnored == TRUE
\* s.liveMu.Lock() returns only while no other request holds liveMu
LiveMuFree == liveMu = 0

At(t, pc, key, b, own) == [thr EXCEPT ![t] = [pc |-> pc, key |-> key, b |-> b, own |-> own]]

\* startAccountWindowHandler up to the call of setLiveBrowser: Get(id),
\* then StartVisibleWindow launches the window and opens its page; an
\* unknown id and a failed launch return an error and change nothing
startAccountWindowHandler(t, id) ==
    /\ thr[t].pc = "idle"
    /\ IF id \notin DOMAIN accounts THEN UNCHANGED <<liveVars, disk, otherVars>>
       ELSE /\ disk' = MkdirAll(disk, accounts[id].ProfilePath)
            /\ \E launched \in BOOLEAN :
                  IF launched
                  THEN /\ Len(browsers) < MaxBrowsers
                       /\ browsers' = Append(browsers, NewBrowserFor(accounts[id].Key, TRUE))
                       /\ thr' = At(t, "setLiveBrowser", accounts[id].Key, Len(browsers) + 1, FALSE)
                       /\ UNCHANGED <<liveByAccount, liveBrowsers, liveMu, installed>>
                  ELSE UNCHANGED liveVars
    /\ UNCHANGED <<regVars, created, issued, lastOp, lastLaunch, otherVars>>

\* setLiveBrowser: s.liveMu.Lock(); if old != nil && old != b { old.Close() }
\* (the key is never empty and b never nil here)
setLiveBrowserCloseOld(t) ==
    /\ thr[t].pc = "setLiveBrowser"
    /\ LiveMuFree
    /\ liveMu' = t
    /\ LET old == getLiveBrowser(thr[t].key)
       IN  browsers' = IF old # NoBrowser /\ old # thr[t].b THEN Close(browsers, old) ELSE browsers
    /\ thr' = [thr EXCEPT ![t].pc = "install"]
    /\ UNCHANGED <<regVars, created, issued, lastOp, lastLaunch, liveByAccount, liveBrowsers, installed, disk, otherVars>>

\* setLiveBrowser: s.liveByAccount[accountKey] = b and the deferred Unlock
setLiveBrowserInstall(t) ==
    /\ thr[t].pc = "install"
    /\ liveByAccount' = Put(liveByAccount, thr[t].key, thr[t].b)
    /\ installed' = Append(installed, [key |-> thr[t].key, b |-> thr[t].b])
    /\ liveMu' = 0
    /\ thr' = [thr EXCEPT ![t].pc = "append"]
    /\ UNCHANGED <<regVars, created, issued, lastOp, lastLaunch, liveBrowsers, browsers, disk, otherVars>>

\* the rest of StartVisibleWindow: append to liveBrowsers under liveMu,
\* start the goroutine on the page, return
StartVisibleWindowReturn(t) ==
    /\ thr[t].pc = "append"
    /\ LiveMuFree
    /\ liveBrowsers' = liveBrowsers \cup {thr[t].b}
    /\ browsers' = [browsers EXCEPT ![thr[t].b].task = "WaitForLogin"]
    /\ thr' = [thr EXCEPT ![t] = Idle]
    /\ UNCHANGED <<regVars, created, issued, lastOp, lastLaunch, liveByAccount, liveMu, installed, disk, otherVars>>

\* goroutine of StartVisibleWindow: page.Navigate, page.WaitLoad and
\* loginAction.WaitForLogin, which gives up after 10 minutes
GoWaitForLogin(b) ==
    /\ b \in DOMAIN browsers
    /\ browsers[b].task = "WaitForLogin"
    /\ \E loggedIn \in BOOLEAN :
          browsers' = [Use(browsers, b) EXCEPT
                         ![b].task = IF ~IsClosed(b) /\ loggedIn THEN "saveCookies" ELSE "done"]
    /\ UNCHANGED <<regVars, created, issued, lastOp, lastLaunch, liveByAccount, liveBrowsers, liveMu, thr, installed, disk, otherVars>>

\* os.WriteFile(name, data) after os.MkdirAll of its directory
WriteFile(d, name) == d \cup {name}

\* page.Browser().GetCookies() is a call on the rod Browser, which runs
\* under the context the Browser was made with (cfg.Context of New) and
\* fails once that context is done.  newBrowser(ctx) of GetLoginQrcode
\* passes the 60 second context of the request, ended by the deferred
\* cancel() when the request returns: the Browser its goroutine works on
\* is the one Browser used after its context has ended
GetCookiesWorks(b) == browsers[b].task # "QrWaitForLogin"

\* saveCookies on a page of b: GetCookies, SaveCookies, MarkLoggedIn
saveCookies(b, key, saved) ==
    IF ~IsClosed(b) /\ GetCookiesWorks(b) /\ saved
    THEN /\ disk' = WriteFile(disk, GetCookiesFilePathForAccount(key))
         /\ DoMarkLoggedIn(key)
    ELSE UNCHANGED <<regVars, disk>>

\* goroutine of StartVisibleWindow: saveCookies after a manual login
GoSaveCookies(b) ==
    /\ b \in DOMAIN browsers
    /\ browsers[b].task = "saveCookies"
    /\ \E saved \in BOOLEAN : saveCookies(b, browsers[b].key, saved)
    /\ browsers' = [Use(browsers, b) EXCEPT ![b].task = "done"]
    /\ UNCHANGED <<created, issued, lastOp, lastLaunch, liveByAccount, liveBrowsers, liveMu, thr, installed, otherVars>>

\* getAccountBrowser: the live Browser of the key with a closer that does
\* nothing, else a one-shot Browser from newBrowser with b.Close as closer
getAccountBrowser(t, key) ==
    IF getLiveBrowser(key) # NoBrowser
    THEN /\ thr' = At(t, "CheckLoginStatus", key, getLiveBrowser(key), FALSE)
         /\ UNCHANGED <<liveByAccount, liveBrowsers, liveMu, browsers, installed, disk>>
    ELSE /\ disk' = MkdirAll(disk, ProfilePathFor(key))
         /\ \E launched \in BOOLEAN :
               IF launched
               THEN /\ Len(browsers) < MaxBrowsers
                    /\ browsers' = Append(browsers, NewBrowserFor(key, FALSE))
                    /\ thr' = At(t, "CheckLoginStatus", key, Len(browsers) + 1, TRUE)
                    /\ UNCHANGED <<liveByAccount, liveBrowsers, liveMu, installed>>
               ELSE UNCHANGED liveVars

\* checkLoginStatusHandler up to getAccountBrowser; bindAccountContext
\* creates the account when it is account 1 that is missing
checkLoginStatusHandler(t, id) ==
    /\ thr[t].pc = "idle"
    /\ LiveMuFree
    /\ IF id \in DOMAIN accounts
       THEN /\ getAccountBrowser(t, accounts[id].Key)
            /\ UNCHANGED <<regVars, created, issued>>
       ELSE IF id = 1
       THEN /\ nextID <= MaxID
            /\ Cardinality(DOMAIN accounts) < MaxAccounts
            /\ \E ok \in BOOLEAN, fp \in {"fpWin"} :
                  /\ DoCreate(<<>>, "", fp, ok)
                  /\ created' = Append(created, Identity(NewAccount(nextID, <<>>, "", fp)))
                  /\ issued' = Append(issued, nextID)
                  /\ IF ok THEN getAccountBrowser(t, AccountKey(nextID))
                     ELSE UNCHANGED <<liveVars, disk, otherVars>>
       ELSE UNCHANGED <<regVars, created, issued, liveVars, disk>>
    /\ UNCHANGED <<lastOp, lastLaunch, otherVars>>

\* the deferred closeBrowser() of CheckLoginStatus
closeBrowser(bs, t) == IF thr[t].own THEN Close(bs, thr[t].b) ELSE bs

\* CheckLoginStatus: page := b.NewPage() and loginAction.CheckLoginStatus
\* on it; on a Browser whose Chrome is gone this fails and the deferred
\* closer runs
CheckLoginStatusCheck(t) ==
    /\ thr[t].pc = "CheckLoginStatus"
    /\ \E isLoggedIn \in BOOLEAN :
          IF ~IsClosed(thr[t].b) /\ isLoggedIn
          THEN /\ thr' = [thr EXCEPT ![t].pc = "saveCookies"]
               /\ UNCHANGED browsers
          ELSE /\ browsers' = closeBrowser(Use(browsers, thr[t].b), t)
               /\ thr' = [thr EXCEPT ![t] = Idle]
    /\ UNCHANGED <<regVars, created, issued, lastOp, lastLaunch, liveByAccount, liveBrowsers, liveMu, installed, disk, otherVars>>

\* CheckLoginStatus: saveCookies when logged in, then the deferred closers
CheckLoginStatusSave(t) ==
    /\ thr[t].pc = "saveCookies"
    /\ \E saved \in BOOLEAN : saveCookies(thr[t].b, thr[t].key, saved)
    /\ browsers' = closeBrowser(Use(browsers, thr[t].b), t)
    /\ thr' = [thr EXCEPT ![t] = Idle]
    /\ UNCHANGED <<created, issued, lastOp, lastLaunch, liveByAccount, liveBrowsers, liveMu, installed, otherVars>>

\* newBrowser of an operation that owns its Browser
oneShotBrowser(t, key, pc) ==
    /\ disk' = MkdirAll(disk, ProfilePathFor(key))
    /\ \E launched \in BOOLEAN :
          IF launched
          THEN /\ Len(browsers) < MaxBrowsers
               /\ browsers' = Append(browsers, NewBrowserFor(key, FALSE))
               /\ thr' = At(t, pc, key, Len(browsers) + 1, TRUE)
               /\ UNCHANGED <<liveByAccount, liveBrowsers, liveMu, installed>>
          ELSE UNCHANGED liveVars

\* getLoginQrcodeHandler up to b.NewPage() in GetLoginQrcode:
\* bindAccountContext, resolveAccount, newBrowser
getLoginQrcodeHandler(t, id) ==
    /\ thr[t].pc = "idle"
    /\ IF id \in DOMAIN accounts
       THEN /\ oneShotBrowser(t, accounts[id].Key, "FetchQrcodeImage")
            /\ UNCHANGED <<regVars, created, issued>>
       ELSE IF id = 1
       THEN /\ nextID <= MaxID
            /\ Cardinality(DOMAIN accounts) < MaxAccounts
            /\ \E ok \in BOOLEAN, fp \in {"fpWin"} :
                  /\ DoCreate(<<>>, "", fp, ok)
                  /\ created' = Append(created, Identity(NewAccount(nextID, <<>>, "", fp)))
                  /\ issued' = Append(issued, nextID)
                  /\ IF ok THEN oneShotBrowser(t, AccountKey(nextID), "FetchQrcodeImage")
                     ELSE UNCHANGED <<liveVars, disk>>
       ELSE UNCHANGED <<regVars, created, issued, liveVars, disk>>
    /\ UNCHANGED <<lastOp, lastLaunch, otherVars>>

\* how page := b.NewPage() and loginAction.FetchQrcodeImage can end:
\* stealth.MustPage panics, FetchQrcodeImage returns an error, finds the
\* page logged in, or returns the QR code
QrcodeOutcomes == {"panic", "err", "loggedIn", "qrcode"}

\* GetLoginQrcode from b.NewPage() on.  deferFunc, which closes the page
\* and the Browser, exists only after NewPage returned; it is deferred on
\* an error and on loggedIn, and handed to the goroutine otherwise.  The
\* Browser was made by newBrowser(ctx) with ctx the 60 second context of
\* this call, which the deferred cancel() ends when the call returns
GetLoginQrcodeFetch(t) ==
    /\ thr[t].pc = "FetchQrcodeImage"
    /\ \E outcome \in QrcodeOutcomes :
          browsers' = IF outcome = "panic" THEN browsers
                      ELSE IF outcome = "qrcode"
                      THEN [browsers EXCEPT ![thr[t].b].task = "QrWaitForLogin"]
                      ELSE Close(browsers, thr[t].b)
    /\ thr' = [thr EXCEPT ![t] = Idle]
    /\ UNCHANGED <<regVars, created, issued, lastOp, lastLaunch, liveByAccount, liveBrowsers, liveMu, installed, disk, otherVars>>

\* goroutine of GetLoginQrcode: WaitForLogin for up to 4 minutes under a
\* context made from context.Background(), whose result loggedIn is an
\* input here, saveCookies when the login was seen, then the deferred
\* deferFunc.  wait is "seen" when the login was
\* seen and the cookie file was writable
GoQrWaitForLogin(b) ==
    /\ b \in DOMAIN browsers
    /\ browsers[b].task = "QrWaitForLogin"
    /\ \E loggedIn \in BOOLEAN, saved \in BOOLEAN :
          /\ IF loggedIn THEN saveCookies(b, browsers[b].key, saved)
             ELSE UNCHANGED <<regVars, disk>>
          /\ browsers' = [Close(browsers, b) EXCEPT
                             ![b].task = "done",
                             ![b].wait = IF loggedIn /\ saved
                                         THEN "seen" ELSE "none"]
    /\ UNCHANGED <<created, issued, lastOp, lastLaunch, liveByAccount, liveBrowsers, liveMu, thr, installed, otherVars>>

\* requests for login status, for a window and for a login QR code, on
\* NumThreads threads
NextLive ==
    \/ \E t \in Threads, id \in IDs : checkLoginStatusHandler(t, id)
    \/ \E t \in Threads, id \in IDs : startAccountWindowHandler(t, id)
    \/ \E t \in Threads : setLiveBrowserCloseOld(t)
    \/ \E t \in Threads : setLiveBrowserInstall(t)
    \/ \E t \in Threads : StartVisibleWindowReturn(t)
    \/ \E b \in 1..MaxBrowsers : GoWaitForLogin(b)
    \/ \E b \in 1..MaxBrowsers : GoSaveCookies(b)
    \/ \E t \in Threads : CheckLoginStatusCheck(t)
    \/ \E t \in Threads : CheckLoginStatusSave(t)
    \/ \E t \in Threads, id \in IDs : getLoginQrcodeHandler(t, id)
    \/ \E t \in Threads : GetLoginQrcodeFetch(t)
    \/ \E b \in 1..MaxBrowsers : GoQrWaitForLogin(b)

SpecLive == Init /\ [][NextLive]_vars

\* ------------------------------------------------------- service facade
\* A request binds an account to its context and then asks newBrowser for
\* a Browser; newBrowser resolves the account again from the key in the
\* context.  Delete requests come in between.

\* the outcome of browser.New for the resolved account, up to the launcher
browserNew(acc, listenOk, port) ==
    LET w == ProxyForChrome(BrowserConfig(acc), listenOk, port)
    IN  [NoLaunch EXCEPT !.id = acc.ID, !.err = w.err, !.stored = acc.Proxy,
                         !.proxy = w.proxy, !.bridge = w.bridge]

\* Create("", "") as the handlers and resolveAccount call it
AutoCreate(ok) ==
    /\ nextID <= MaxID
    /\ Cardinality(DOMAIN accounts) < MaxAccounts
    /\ DoCreate(<<>>, "", "fpWin", ok)
    /\ created' = Append(created, Identity(NewAccount(nextID, <<>>, "", "fpWin")))
    /\ issued' = Append(issued, nextID)

\* bindAccountContext (ensureAccountCtx does the same): Get(id), Create("", "")
\* when it is account 1 that is missing, then session.WithAccount(acc.Key);
\* lastOp holds the id asked for and the key that was bound
bindAccountContext(t, id) ==
    /\ thr[t].pc = "idle"
    /\ IF id \in DOMAIN accounts
       THEN /\ thr' = At(t, "newBrowser", accounts[id].Key, NoBrowser, FALSE)
            /\ lastOp' = Call("bindAccountContext", id, accounts[id].Key, FALSE, accounts[id].LoggedIn, FALSE)
            /\ UNCHANGED <<regVars, created, issued>>
       ELSE IF id = 1
       THEN \E ok \in BOOLEAN :
              /\ AutoCreate(ok)
              /\ thr' = IF ok THEN At(t, "newBrowser", AccountKey(nextID), NoBrowser, FALSE) ELSE thr
              /\ lastOp' = Call("bindAccountContext", id, AccountKey(nextID), ~ok, FALSE, FALSE)
       ELSE /\ lastOp' = Call("bindAccountContext", id, <<>>, TRUE, FALSE, FALSE)
            /\ UNCHANGED <<regVars, created, issued, thr>>
    /\ lastLaunch' = NoLaunch
    /\ UNCHANGED <<liveByAccount, liveBrowsers, liveMu, browsers, installed, disk, otherVars>>

\* a service operation called with a context that carries no account:
\* session.Account gives "default"
unboundContext(t) ==
    /\ thr[t].pc = "idle"
    /\ thr' = At(t, "newBrowser", DefaultKey, NoBrowser, FALSE)
    /\ lastOp' = Call("unboundContext", 0, DefaultKey, FALSE, FALSE, FALSE)
    /\ lastLaunch' = NoLaunch
    /\ UNCHANGED <<regVars, created, issued, liveByAccount, liveBrowsers, liveMu, browsers, installed, disk, otherVars>>

IsDefaultKey(key) == key = <<>> \/ key = DefaultKey

\* resolveAccount finds an account for the key, else it calls Create("", "")
ResolveFinds(key) == IF IsDefaultKey(key) THEN 1 \in DOMAIN accounts ELSE key \in DOMAIN keyIndex
Resolved(key) == IF IsDefaultKey(key) THEN accounts[1] ELSE accounts[keyIndex[key]]

\* the value a context holds under headlessKey: none, or the bool that
\* session.WithHeadless(ctx, headless) stored
HeadlessValues == {"nil", "true", "false"}

HeadlessUnlessFalse(v, isHeadless) == IF v = "true" THEN TRUE ELSE isHeadless
\* cfg.Headless of newBrowser: *session.HeadlessOverride(ctx) when the
\* context holds a bool, else configs.IsHeadless(); the launcher is made
\* with l.Headless(cfg.Headless)
Headless(v, isHeadless) == IF v # "nil" THEN v = "true" ELSE isHeadless

\* what browser.New is given, with the context's override v and the
\* value isHeadless of the -headless flag
withHeadless(launch, v, isHeadless) ==
    [launch EXCEPT !.override = v, !.isHeadless = isHeadless, !.headless = Headless(v, isHeadless)]

\* newBrowser: resolveAccount, then browser.New with the account's
\* proxy, cookie path and profile directory; lastOp holds the key of the
\* context and the ID of the account resolveAccount returned
newBrowser(t) ==
    /\ thr[t].pc = "newBrowser"
    /\ \E listenOk \in BOOLEAN, port \in BridgePorts, v \in HeadlessValues, isHeadless \in BOOLEAN :
          IF ResolveFinds(thr[t].key)
          THEN LET acc == Resolved(thr[t].key)
               IN  /\ lastOp' = Call("resolveAccount", acc.ID, thr[t].key, FALSE, acc.LoggedIn, FALSE)
                   /\ lastLaunch' = withHeadless(browserNew(acc, listenOk, port), v, isHeadless)
                   /\ disk' = MkdirAll(disk, acc.ProfilePath)
                   /\ thr' = IF lastLaunch'.err THEN [thr EXCEPT ![t] = Idle]
                             ELSE [thr EXCEPT ![t].pc = "saveCookies"]
                   /\ UNCHANGED <<regVars, created, issued>>
          ELSE \E ok \in BOOLEAN :
                 LET acc == NewAccount(nextID, <<>>, "", "fpWin")
                 IN  /\ AutoCreate(ok)
                     /\ lastOp' = Call("resolveAccount", acc.ID, thr[t].key, ~ok, FALSE, FALSE)
                     /\ lastLaunch' = IF ok THEN withHeadless(browserNew(acc, listenOk, port), v, isHeadless)
                                      ELSE NoLaunch
                     /\ disk' = IF ok THEN MkdirAll(disk, acc.ProfilePath) ELSE disk
                     /\ thr' = IF ok THEN [thr EXCEPT ![t].pc = "saveCookies"]
                               ELSE [thr EXCEPT ![t] = Idle]
    /\ UNCHANGED <<liveByAccount, liveBrowsers, liveMu, browsers, installed, otherVars>>

MarkLoggedInAlways(saved) == TRUE
\* saveCookies returns the error of GetCookies, json.Marshal or
\* SaveCookies before it gets to s.accounts.MarkLoggedIn
ReachesMarkLoggedIn(saved) == saved

\* the rest of an operation on its page: when the page is logged in,
\* saveCookies writes the cookie file of the context's key and calls
\* MarkLoggedIn; the Browser is closed and the request returns.  lastOp
\* holds whether saveCookies returned an error
operationReturns(t) ==
    /\ thr[t].pc = "saveCookies"
    /\ \E saved \in BOOLEAN :
          /\ disk' = IF saved THEN WriteFile(disk, GetCookiesFilePathForAccount(thr[t].key))
                     ELSE disk
          /\ IF ReachesMarkLoggedIn(saved) THEN DoMarkLoggedIn(thr[t].key)
             ELSE UNCHANGED regVars
          /\ lastOp' = Call("saveCookies", 0, thr[t].key, ~saved, FALSE, FALSE)
    /\ thr' = [thr EXCEPT ![t] = Idle]
    /\ lastLaunch' = NoLaunch
    /\ UNCHANGED <<created, issued, liveByAccount, liveBrowsers, liveMu, browsers, installed, otherVars>>

\* requests on NumThreads threads with deleteAccountHandler in between
NextFacade ==
    \/ \E t \in Threads, id \in IDs : bindAccountContext(t, id)
    \/ \E t \in Threads : unboundContext(t)
    \/ \E t \in Threads : newBrowser(t)
    \/ \E t \in Threads : operationReturns(t)
    \/ \E id \in IDs : Delete(id)

SpecFacade == Init /\ [][NextFacade]_vars

\* ------------------------------------------------------------------ List
\* A caller holds the Accounts of the last List, by ID.  Account.Fingerprint
\* is a *session.Fingerprint: a copied Account refers to the Fingerprint
\* object of the registry's Account until the caller points it elsewhere;
\* shared tells that it still does.

\* copyAcc := *acc
CopyOf(acc) == [acc |-> acc, shared |-> acc.Fingerprint # NoFingerprint]

\* List
List ==
    /\ listed' = [id \in DOMAIN accounts |-> CopyOf(accounts[id])]
    /\ lastOp' = Call("List", 0, <<>>, FALSE, FALSE, FALSE)
    /\ lastLaunch' = NoLaunch
    /\ UNCHANGED <<regVars, created, issued, liveVars, disk, launchers, newCall, inst, socksBridge, mgr, login>>

\* what a caller writes into a Fingerprint
EditedFingerprint == "fpEdited"

\* the caller assigns a field of a returned Account: out[i].Name = name
CallerSetsName(id, name) ==
    /\ id \in DOMAIN listed
    /\ listed' = [listed EXCEPT ![id].acc.Name = name]
    /\ lastOp' = Call("CallerSetsName", id, listed[id].acc.Key, FALSE, FALSE, FALSE)
    /\ lastLaunch' = NoLaunch
    /\ UNCHANGED <<regVars, created, issued, liveVars, disk, launchers, newCall, inst, socksBridge, mgr, login>>

\* the caller points a returned Account at a Fingerprint of its own:
\* out[i].Fingerprint = &fp
CallerSetsFingerprint(id, fp) ==
    /\ id \in DOMAIN listed
    /\ listed' = [listed EXCEPT ![id].acc.Fingerprint = fp, ![id].shared = FALSE]
    /\ lastOp' = Call("CallerSetsFingerprint", id, listed[id].acc.Key, FALSE, FALSE, FALSE)
    /\ lastLaunch' = NoLaunch
    /\ UNCHANGED <<regVars, created, issued, liveVars, disk, launchers, newCall, inst, socksBridge, mgr, login>>

\* the caller writes through the pointer: out[i].Fingerprint.UserAgent = ...;
\* the object is the registry's while the copy shares it and the registry
\* still holds the Account
CallerEditsFingerprint(id, fp) ==
    /\ id \in DOMAIN listed
    /\ listed[id].acc.Fingerprint # NoFingerprint
    /\ listed' = [listed EXCEPT ![id].acc.Fingerprint = fp]
    /\ accounts' = IF listed[id].shared /\ id \in DOMAIN accounts
                   THEN [accounts EXCEPT ![id].Fingerprint = fp]
                   ELSE accounts
    /\ lastOp' = Call("CallerEditsFingerprint", id, listed[id].acc.Key, FALSE, FALSE, FALSE)
    /\ lastLaunch' = NoLaunch
    /\ UNCHANGED <<keyIndex, nextID, store, writeFailures, created, issued, liveVars, disk,
                   launchers, newCall, inst, socksBridge, mgr, login>>

\* a caller that lists the accounts and writes into what it got, while
\* accounts are created and deleted
NextList ==
    \/ Create(<<>>, "", "fpWin")
    \/ \E id \in IDs : Delete(id)
    \/ List
    \/ \E id \in IDs, n \in Names : CallerSetsName(id, n)
    \/ \E id \in IDs : CallerSetsFingerprint(id, "fpMac")
    \/ \E id \in IDs : CallerEditsFingerprint(id, EditedFingerprint)

SpecList == Init /\ [][NextList]_vars

\* the entries of installed for one key, oldest first
InstalledFor(k) == SelectSeq(installed, LAMBDA e : e.key = k)

\* ------------------------------------------------------------ browser.New
\* cfg.UserDataDir of a call: empty, or the profile directory of an account
UserDataDirs == {<<>>, ProfilePathFor(AccountKey(1))}

\* the files cleanupUserDataLocks removes from a profile directory
LockFiles(dir) ==
    {dir \o <<"/", name>> :
        name \in {"SingletonLock", "SingletonCookie", "SingletonSocket", "DevToolsActivePort"}}

cleanupUserDataLocks(d, dir) == d \ LockFiles(dir)

\* a Chromium that has started on a profile directory has created it and
\* holds its lock
ChromiumStarted(d, dir) == d \cup {dir, dir \o <<"/", "SingletonLock">>}

\* the user-data-dir launcher.New() picks for launcher l when the caller
\* sets none: a fresh directory under the temporary directory
TempDir(l) == <<"tmp", "/", "rod", "/", "user-data", "/">> \o Itoa(l)

\* what l.Launch() returns as its error
LaunchErrs == {"errTimeout", "errExec"}

\* cfg.Context of a call: done already, 5 seconds left, or no deadline
\* (context.Background(), also taken when cfg.Context is nil)
CallerDeadlines == {0, 5, NoDeadline}

\* seconds a Chromium needs until it has printed its control URL
LaunchNeeds == {1, 10, 31}

CtxDone(left) == left = 0

\* the context d seconds later
Elapse(left, d) ==
    IF left = NoDeadline THEN NoDeadline ELSE IF left > d THEN left - d ELSE 0

AttemptContextOfCaller(left) ==
    IF left = NoDeadline \/ left > AttemptTimeout THEN AttemptTimeout ELSE left
\* the timeout of attemptCtx, in seconds, given the caller's context
AttemptContext(left) == AttemptTimeout

\* makeLauncherWithContext(attemptCtx) followed by l.Launch(): started says
\* whether a Chromium process was started before Launch returned
NewLauncher(call, attempt, err, started, timeout, dataDir) ==
    [call |-> call, attempt |-> attempt, err |-> err, started |-> started, cleaned |-> "none",
     timeout |-> timeout, dataDir |-> dataDir]

\* l.Cleanup() removes the launcher's user-data-dir once the process has
\* gone, l.Kill() ends the process
LauncherDone(ls, l, cleanup) ==
    [ls EXCEPT ![l].cleaned = IF cleanup THEN "Cleanup" ELSE "Kill"]

LauncherDoneDisk(d, ls, l, cleanup) ==
    IF cleanup THEN osRemoveAll(d, ls[l].dataDir).disk ELSE d

\* cleanupLauncher(l)
cleanupLauncher(ls, l, dir) ==
    IF l = NoLauncher THEN ls ELSE LauncherDone(ls, l, dir = <<>>)

\* the files after cleanupLauncher(l)
cleanupLauncherDisk(d, ls, l, dir) ==
    IF l = NoLauncher THEN d
    ELSE IF dir = <<>> THEN LauncherDoneDisk(d, ls, l, TRUE)
    ELSE cleanupUserDataLocks(d, dir)

\* the deferred function of New
DeferredCleanup(ls, call) ==
    IF call.cleanupNeeded /\ call.l # NoLauncher THEN cleanupLauncher(ls, call.l, call.dir) ELSE ls

LoopNeverBreaks(err) == FALSE
\* if err != nil { ... } else { ...; break }
LoopBreaks(err) == err = NilErr

\* New up to the launch loop: MkdirAll and lock cleanup of the profile
\* directory, then the socks bridge, whose failure returns before any
\* launcher exists
New(dir, bridgeFails) ==
    /\ newCall.pc \in {"idle", "returned"}
    /\ newCall.n < MaxCalls
    /\ disk' = IF dir = <<>> THEN disk ELSE cleanupUserDataLocks(MkdirAll(disk, dir), dir)
    /\ \E left \in CallerDeadlines, socks \in BOOLEAN :
          newCall' = IF bridgeFails
                     THEN [NoCall EXCEPT !.pc = "returned", !.n = newCall.n + 1, !.dir = dir,
                                         !.err = "errBridge", !.left = left]
                     ELSE [NoCall EXCEPT !.pc = "launch", !.n = newCall.n + 1, !.dir = dir,
                                         !.attempt = 1, !.cleanupNeeded = TRUE, !.left = left,
                                         !.bridge = IF socks THEN "stops" ELSE "noop",
                                         !.listening = socks]
    /\ UNCHANGED <<regVars, created, issued, lastOp, lastLaunch, liveVars, listed, socksBridge, mgr, launchers, inst, login>>

\* one iteration of for attempt := 1; attempt <= 2; attempt++: l.Launch()
\* fails at once, or runs until the control URL is there or attemptCtx is
\* done
LaunchAttempt ==
    /\ newCall.pc = "launch"
    /\ \E need \in LaunchNeeds, execFails \in BOOLEAN, started \in BOOLEAN :
         LET timeout == AttemptContext(newCall.left)
             err == IF execFails THEN "errExec"
                    ELSE IF need > timeout THEN "errTimeout" ELSE NilErr
             dur == IF execFails THEN 0 ELSE IF need > timeout THEN timeout ELSE need
             dataDir == IF newCall.dir = <<>> THEN TempDir(Len(launchers) + 1) ELSE newCall.dir
             unlocked == IF newCall.dir = <<>> THEN disk
                         ELSE cleanupUserDataLocks(disk, newCall.dir)
         IN
          /\ err = NilErr => started
          /\ launchers' = Append(launchers,
                                 NewLauncher(newCall.n, newCall.attempt, err, started, timeout,
                                             dataDir))
          /\ disk' = IF started THEN ChromiumStarted(unlocked, dataDir) ELSE unlocked
          /\ newCall' = [newCall EXCEPT
                            !.l = Len(launchers) + 1,
                            !.err = err,
                            !.need = need,
                            !.left = Elapse(newCall.left, dur),
                            !.attempt = IF LoopBreaks(err) THEN @ ELSE @ + 1,
                            !.pc = IF LoopBreaks(err) \/ newCall.attempt >= LaunchAttempts
                                   THEN "afterLoop" ELSE "launch"]
    /\ UNCHANGED <<regVars, created, issued, lastOp, lastLaunch, liveVars, listed, socksBridge, mgr, inst, login>>

\* the listener of the socks bridge when New returns an error: the
\* deferred function cleans the launcher only and no return path calls
\* bridgeStop
ListeningAfterError(call) == call.listening

\* New leaves without a Browser, by return nil, err or by a panic: the
\* deferred function runs
NewReturnsError(err) ==
    /\ launchers' = DeferredCleanup(launchers, newCall)
    /\ disk' = IF newCall.cleanupNeeded
               THEN cleanupLauncherDisk(disk, launchers, newCall.l, newCall.dir) ELSE disk
    /\ newCall' = [newCall EXCEPT !.pc = "returned", !.err = err,
                                  !.listening = ListeningAfterError(newCall),
                                  !.connected = (err = "panic"),
                                  !.cookie = IF err = "panic" THEN "injectFails" ELSE @]

\* cfg.CookiePath and the file behind it: no path given, no such file, a
\* file that cannot be read, one that is not a JSON cookie list, one whose
\* cookies the browser rejects, and one that loads
CookieFiles == {"noPath", "missing", "unreadable", "unparsable", "injectFails", "ok"}

\* rb.MustSetCookies(cks...) panics when SetCookies returns an error
MustSetCookiesPanics(cookie) == cookie = "injectFails"

InstCleanupAlways(dir) == TRUE
\* cleanup: cfg.UserDataDir == ""
InstCleanup(dir) == dir = <<>>

\* &Browser{browser: rb, launcher: l, bridge: bridgeStop, cleanup: ...}
NewInst(call) ==
    [NoInst EXCEPT !.n = inst.n + 1, !.browser = TRUE, !.launcher = call.l,
                   !.bridge = call.bridge, !.cleanup = InstCleanup(call.dir), !.pc = "open"]

\* New after the loop: the error of the last attempt is returned, else
\* rb.Connect() under the caller's context; a Browser is returned with
\* cleanupNeeded = false
AfterLoop ==
    /\ newCall.pc = "afterLoop"
    /\ IF newCall.err # NilErr
       THEN NewReturnsError(newCall.err) /\ UNCHANGED inst
       ELSE \E connected \in BOOLEAN, cookie \in CookieFiles :
              IF connected /\ ~CtxDone(newCall.left)
              THEN IF MustSetCookiesPanics(cookie)
                   THEN NewReturnsError("panic") /\ UNCHANGED inst
                   ELSE /\ newCall' = [newCall EXCEPT !.pc = "returned", !.cleanupNeeded = FALSE,
                                                      !.browser = newCall.l, !.connected = TRUE,
                                                      !.cookie = cookie,
                                                      !.loaded = (cookie = "ok")]
                        /\ inst' = NewInst(newCall)
                        /\ UNCHANGED <<launchers, disk>>
              ELSE NewReturnsError("errConnect") /\ UNCHANGED inst
    /\ UNCHANGED <<regVars, created, issued, lastOp, lastLaunch, liveVars, listed, socksBridge, mgr, login>>

\* the caller cancels cfg.Context, or its deadline passes, while New runs
CallerCancels ==
    /\ newCall.pc \in {"launch", "afterLoop"}
    /\ newCall.left # NoDeadline
    /\ ~CtxDone(newCall.left)
    /\ newCall' = [newCall EXCEPT !.left = 0, !.cancelled = TRUE]
    /\ UNCHANGED <<regVars, created, issued, lastOp, lastLaunch, liveVars, listed, socksBridge, mgr, disk, launchers,
                   inst, login>>

\* if b.browser != nil
HasBrowser(i) == i.browser

\* if b.launcher != nil
HasLauncher(i) == i.launcher # NoLauncher

BridgeAssumed(i) == TRUE
\* if b.bridge != nil
HasBridge(i) == i.bridge # "nil"

\* Browser.Close up to the select: b.browser.Close(), then Cleanup or Kill
\* of the launcher, then the goroutine that calls b.bridge(); a call
\* through a nil field panics
BrowserClose ==
    /\ inst.pc = "open"
    /\ launchers' = IF HasLauncher(inst) /\ inst.launcher # NoLauncher
                    THEN LauncherDone(launchers, inst.launcher, inst.cleanup)
                    ELSE launchers
    /\ disk' = IF HasLauncher(inst) /\ inst.launcher # NoLauncher
               THEN LauncherDoneDisk(disk, launchers, inst.launcher, inst.cleanup)
               ELSE disk
    /\ inst' = [inst EXCEPT
                   !.pc = IF HasBridge(inst) THEN "bridgeWait" ELSE "closed",
                   !.panicked = \/ (HasBrowser(inst) /\ ~inst.browser)
                                \/ (HasLauncher(inst) /\ inst.launcher = NoLauncher)
                                \/ (HasBridge(inst) /\ inst.bridge = "nil")]
    /\ UNCHANGED <<regVars, created, issued, lastOp, lastLaunch, liveVars, listed, socksBridge, mgr, newCall, login>>

\* the select of Browser.Close: done is closed when b.bridge() has
\* returned, time.After(2 * time.Second) fires in any case
BrowserCloseSelect ==
    /\ inst.pc = "bridgeWait"
    /\ \E viaDone \in BOOLEAN :
          /\ viaDone => inst.bridge \in {"noop", "stops"}
          /\ inst' = [inst EXCEPT !.pc = "closed", !.viaDone = viaDone]
    /\ newCall' = [newCall EXCEPT !.listening = @ /\ inst.bridge # "stops"]
    /\ UNCHANGED <<regVars, created, issued, lastOp, lastLaunch, liveVars, listed, socksBridge, mgr, disk, launchers,
                   login>>

NextNew ==
    \/ \E dir \in UserDataDirs, bridgeFails \in BOOLEAN : New(dir, bridgeFails)
    \/ LaunchAttempt
    \/ AfterLoop
    \/ CallerCancels
    \/ BrowserClose
    \/ BrowserCloseSelect

SpecNew == Init /\ [][NextNew]_vars

\* what the bridge field of a Browser can hold
BridgeFuncs == {"nil", "noop", "stops", "stuck"}

\* a Browser value with any of its fields unset, as Close may be given one
PartialInstance(browser, withLauncher, bridge, cleanup, dir) ==
    /\ inst.pc \in {"none", "closed"}
    /\ inst.n < MaxCalls
    /\ LET l == Len(launchers) + 1
           dataDir == IF dir = <<>> THEN TempDir(l) ELSE dir
       IN  /\ launchers' = IF withLauncher
                           THEN Append(launchers,
                                       NewLauncher(0, 1, NilErr, TRUE, AttemptTimeout, dataDir))
                           ELSE launchers
           /\ disk' = IF withLauncher THEN ChromiumStarted(disk, dataDir) ELSE disk
           /\ inst' = [NoInst EXCEPT !.n = inst.n + 1, !.browser = browser,
                                     !.launcher = IF withLauncher THEN l ELSE NoLauncher,
                                     !.bridge = bridge, !.cleanup = cleanup, !.pc = "open"]
    /\ UNCHANGED <<regVars, created, issued, lastOp, lastLaunch, liveVars, listed, socksBridge, mgr, newCall, login>>

NextClose ==
    \/ \E browser \in BOOLEAN, withLauncher \in BOOLEAN, bridge \in BridgeFuncs,
          cleanup \in BOOLEAN, dir \in UserDataDirs :
          PartialInstance(browser, withLauncher, bridge, cleanup, dir)
    \/ BrowserClose
    \/ BrowserCloseSelect

\* the select of Close has a timer among its cases, so it is always left
SpecClose == Init /\ [][NextClose]_vars /\ WF_vars(BrowserCloseSelect)

\* ------------------------------------------------- proxybridge (stop func)
\* sync.Once: Do runs its function when nothing has run it yet
OnceRunsAlways(once) == TRUE
OnceRuns(once) == once = "fresh"

\* StartSocksBridge: on success the listener is open, the goroutine that
\* will call server.Serve(ln) exists and stop is returned
BridgeStart(rawurl, listenOk) ==
    /\ socksBridge.state = "none"
    /\ \E port \in BridgePorts :
          socksBridge' = [socksBridge EXCEPT
                             !.state = IF StartSocksBridge(rawurl, listenOk, port).err
                                       THEN "failed" ELSE "started"]
    /\ UNCHANGED <<regVars, created, issued, lastOp, lastLaunch, liveVars, disk, listed, launchers,
                   newCall, inst, mgr, login>>

\* go func() { _ = server.Serve(ln) }() gets to run: Serve returns at once
\* on a server that was shut down
BridgeServe ==
    /\ socksBridge.state = "started"
    /\ socksBridge.serve = "notStarted"
    /\ socksBridge' = [socksBridge EXCEPT
                          !.serve = IF socksBridge.shutdowns > 0 THEN "refused" ELSE "serving"]
    /\ UNCHANGED <<regVars, created, issued, lastOp, lastLaunch, liveVars, disk, listed, launchers,
                   newCall, inst, mgr, login>>

\* stop(): stopOnce.Do(...) runs the function, waits for the call that is
\* running it, or returns at once
StopCall(t) ==
    /\ socksBridge.state = "started"
    /\ socksBridge.pc[t] = "idle"
    /\ Len(socksBridge.returns[t]) < MaxStops
    /\ socksBridge' =
          IF OnceRuns(socksBridge.once)
          THEN [socksBridge EXCEPT !.once = "running", !.pc[t] = "Shutdown"]
          ELSE IF socksBridge.once = "running"
          THEN [socksBridge EXCEPT !.pc[t] = "blocked"]
          ELSE [socksBridge EXCEPT !.returns[t] = Append(@, "skipped")]
    /\ UNCHANGED <<regVars, created, issued, lastOp, lastLaunch, liveVars, disk, listed, launchers,
                   newCall, inst, mgr, login>>

\* _ = server.Shutdown(ctx), with a 3 second timeout; a serving Serve returns
StopShutdown(t) ==
    /\ socksBridge.pc[t] = "Shutdown"
    /\ socksBridge' = [socksBridge EXCEPT
                          !.shutdowns = @ + 1,
                          !.serve = IF @ = "serving" THEN "returned" ELSE @,
                          !.pc[t] = "lnClose"]
    /\ UNCHANGED <<regVars, created, issued, lastOp, lastLaunch, liveVars, disk, listed, launchers,
                   newCall, inst, mgr, login>>

\* _ = ln.Close(), then Do marks the Once done and stop returns
StopLnClose(t) ==
    /\ socksBridge.pc[t] = "lnClose"
    /\ socksBridge' = [socksBridge EXCEPT
                          !.lnCloses = @ + 1,
                          !.once = "done",
                          !.pc[t] = "idle",
                          !.returns[t] = Append(@, "ran")]
    /\ UNCHANGED <<regVars, created, issued, lastOp, lastLaunch, liveVars, disk, listed, launchers,
                   newCall, inst, mgr, login>>

\* a call that waited in Do returns when the function has run
StopUnblocks(t) ==
    /\ socksBridge.pc[t] = "blocked"
    /\ socksBridge.once = "done"
    /\ socksBridge' = [socksBridge EXCEPT !.pc[t] = "idle", !.returns[t] = Append(@, "waited")]
    /\ UNCHANGED <<regVars, created, issued, lastOp, lastLaunch, liveVars, disk, listed, launchers,
                   newCall, inst, mgr, login>>

NextBridge ==
    \/ \E rawurl \in {SocksRaw, FtpRaw}, listenOk \in BOOLEAN : BridgeStart(rawurl, listenOk)
    \/ BridgeServe
    \/ \E t \in Threads : StopCall(t)
    \/ \E t \in Threads : StopShutdown(t)
    \/ \E t \in Threads : StopLnClose(t)
    \/ \E t \in Threads : StopUnblocks(t)

SpecBridge == Init /\ [][NextBridge]_vars

\* the launchers made by call c of New, in the order they were made
LaunchersOf(c) == SelectSeq(launchers, LAMBDA r : r.call = c)

\* ------------------------------------------------------------- Manager.mu
\* Every method of Manager locks m.mu on entry and unlocks it on return.
\* Get and GetByKey return the *Account that the maps hold, and the
\* caller reads its fields after the method has unlocked.  Here newBrowser
\* fills its browser.Config from such a pointer, one field after the
\* other, while ApplyProxyConfig is served on the other threads.

MuIsLiveMu == mgr.mu = 0 /\ liveMu = 0
\* m.mu.Lock() returns only while no call holds m.mu
MuFree == mgr.mu = 0

\* Create, a whole call under m.mu
CreateLocked(proxy, name) ==
    /\ MuFree
    /\ Create(proxy, name, "fpWin")

\* the proxy configs the proxy handlers pass in this part
RaceConfigs == {SocksCfg, [EmptyCfg EXCEPT !.Type = "http", !.Host = "h", !.Port = 8080]}

\* newBrowser, resolveAccount: Get(1) or GetByKey(key) under m.mu, and
\* Create("", "") when there is no such account; the thread is left with
\* the pointer
newBrowserResolve(t, key) ==
    /\ MuFree
    /\ mgr.pc[t] = "idle"
    /\ IF ResolveFinds(key)
       THEN /\ mgr' = [mgr EXCEPT !.pc[t] = "readProxy", !.acc[t] = Resolved(key).ID]
            /\ lastOp' = Call("resolveAccount", Resolved(key).ID, key, FALSE, Resolved(key).LoggedIn, FALSE)
            /\ UNCHANGED <<regVars, created, issued>>
       ELSE \E ok \in BOOLEAN :
              /\ AutoCreate(ok)
              /\ mgr' = IF ok THEN [mgr EXCEPT !.pc[t] = "readProxy", !.acc[t] = nextID]
                        ELSE mgr
              /\ lastOp' = Call("resolveAccount", nextID, key, ~ok, FALSE, FALSE)
    /\ lastLaunch' = NoLaunch
    /\ UNCHANGED <<liveVars, disk, listed, launchers, newCall, inst, socksBridge, login>>

\* newBrowser, Proxy: acc.Proxy
newBrowserReadProxy(t) ==
    /\ mgr.pc[t] = "readProxy"
    /\ mgr' = [mgr EXCEPT !.pc[t] = "readRest", !.proxy[t] = accounts[mgr.acc[t]].Proxy]
    /\ UNCHANGED <<regVars, created, issued, lastOp, lastLaunch, liveVars, disk, listed, launchers,
                   newCall, inst, socksBridge, login>>

\* newBrowser, ProxyType: acc.ProxyType and the fields after it; lastLaunch
\* holds what browser.New(cfg) makes of them and of the Proxy read before
newBrowserReadRest(t) ==
    /\ mgr.pc[t] = "readRest"
    /\ \E listenOk \in BOOLEAN, port \in BridgePorts :
          lastLaunch' = browserNew([accounts[mgr.acc[t]] EXCEPT !.Proxy = mgr.proxy[t]], listenOk, port)
    /\ mgr' = [mgr EXCEPT !.pc[t] = "idle", !.acc[t] = 0, !.proxy[t] = <<>>]
    /\ UNCHANGED <<regVars, created, issued, lastOp, liveVars, disk, listed, launchers, newCall,
                   inst, socksBridge, login>>

\* ApplyProxyConfig: m.mu.Lock() and the lookup of the account
ApplyProxyConfigLock(t, id, cfg) ==
    /\ MuFree
    /\ mgr.pc[t] = "idle"
    /\ IF id \notin DOMAIN accounts THEN NotFound("ApplyProxyConfig", id, <<>>)
       ELSE /\ mgr' = [mgr EXCEPT !.mu = t, !.pc[t] = "writeProxy", !.acc[t] = id, !.arg[t] = cfg]
            /\ UNCHANGED <<regVars, created, issued, lastOp, lastLaunch, liveVars, disk, listed,
                           launchers, newCall, inst, socksBridge, login>>

\* ApplyProxyConfig: acc.Proxy = cfg.Raw
ApplyProxyConfigWriteProxy(t) ==
    /\ mgr.pc[t] = "writeProxy"
    /\ accounts' = [accounts EXCEPT ![mgr.acc[t]].Proxy = SynthesizedRaw(mgr.arg[t])]
    /\ mgr' = [mgr EXCEPT !.pc[t] = "writeRest"]
    /\ UNCHANGED <<keyIndex, nextID, store, writeFailures, created, issued, lastOp, lastLaunch,
                   liveVars, disk, listed, launchers, newCall, inst, socksBridge, login>>

\* ApplyProxyConfig: the other assignments, saveLocked and the deferred
\* m.mu.Unlock()
ApplyProxyConfigReturn(t) ==
    /\ mgr.pc[t] = "writeRest"
    /\ \E ok \in BOOLEAN :
          /\ accounts' = [accounts EXCEPT ![mgr.acc[t]] = AppliedProxyConfig(@, mgr.arg[t])]
          /\ saveLocked(accounts', nextID, ok)
          /\ lastOp' = Call("ApplyProxyConfig", mgr.acc[t], <<>>, Returned(~ok), accounts[mgr.acc[t]].LoggedIn, FALSE)
    /\ mgr' = [mgr EXCEPT !.mu = 0, !.pc[t] = "idle", !.acc[t] = 0, !.arg[t] = EmptyCfg]
    /\ lastLaunch' = NoLaunch
    /\ UNCHANGED <<keyIndex, nextID, created, issued, liveVars, disk, listed, launchers, newCall,
                   inst, socksBridge, login>>

\* proxy requests and browser launches on NumThreads threads
NextRace ==
    \/ CreateLocked(<<>>, "")
    \/ \E t \in Threads, key \in KeyInputs : newBrowserResolve(t, key)
    \/ \E t \in Threads : newBrowserReadProxy(t)
    \/ \E t \in Threads : newBrowserReadRest(t)
    \/ \E t \in Threads, id \in IDs, cfg \in RaceConfigs : ApplyProxyConfigLock(t, id, cfg)
    \/ \E t \in Threads : ApplyProxyConfigWriteProxy(t)
    \/ \E t \in Threads : ApplyProxyConfigReturn(t)

SpecRace == Init /\ [][NextRace]_vars

\* ---------------------------------------------------- startLoginHandler
\* POST /api/v1/login/start: the account of the request is created, or
\* looked up and updated, its proxy config is applied, and LoginAndWait
\* opens a window and waits for the login.  Requests are served one after
\* the other here, with DELETE requests between them.

\* StartLoginRequest: account_id, proxy (a pointer, nil when absent) and name
LoginRequests ==
    {r \in [AccountID : 0..MaxID, HasProxy : BOOLEAN, Proxy : RawProxies, Name : Names] :
        r.HasProxy \/ r.Proxy = <<>>}

\* what LoginAndWait returns: the error of newBrowser, an error because
\* WaitForLogin saw no login, the error of saveCookies, or nil
LoginOutcomes == {"newBrowserErr", "noLogin", "saveCookiesErr", "nil"}

\* startLoginHandler up to the account: Create when account_id is 0 or
\* when it is 1 and Get finds nothing, else Get and, with a proxy or a
\* name in the request, UpdateProxy; an error ends the request
startLoginHandler(req) ==
    /\ login.pc \in {"idle", "returned"}
    /\ IF req.AccountID = 0 \/ (req.AccountID = 1 /\ 1 \notin DOMAIN accounts)
       THEN \E ok \in BOOLEAN :
              /\ nextID <= MaxID
              /\ Cardinality(DOMAIN accounts) < MaxAccounts
              /\ DoCreate(req.Proxy, req.Name, "fpWin", ok)
              /\ created' = Append(created, Identity(NewAccount(nextID, req.Proxy, req.Name, "fpWin")))
              /\ issued' = Append(issued, nextID)
              /\ login' = [pc |-> IF Returned(~ok) THEN "returned" ELSE "apply", id |-> nextID,
                           created |-> TRUE, proxy |-> req.Proxy]
              /\ lastOp' = Call("startLogin", nextID, AccountKey(nextID), Returned(~ok), FALSE, FALSE)
       ELSE IF req.AccountID \notin DOMAIN accounts
       THEN /\ login' = [pc |-> "returned", id |-> 0, created |-> FALSE, proxy |-> req.Proxy]
            /\ lastOp' = Call("startLogin", req.AccountID, <<>>, TRUE, FALSE, FALSE)
            /\ UNCHANGED <<regVars, created, issued>>
       ELSE IF req.HasProxy \/ req.Name # ""
       THEN \E ok \in BOOLEAN :
              /\ accounts' = [accounts EXCEPT
                                 ![req.AccountID] = UpdatedProxy(@, req.Proxy, req.Name)]
              /\ saveLocked(accounts', nextID, ok)
              /\ login' = [pc |-> IF Returned(~ok) THEN "returned" ELSE "apply",
                           id |-> req.AccountID, created |-> FALSE, proxy |-> req.Proxy]
              /\ lastOp' = Call("startLogin", req.AccountID, accounts[req.AccountID].Key,
                                 Returned(~ok), TRUE, FALSE)
              /\ UNCHANGED <<keyIndex, nextID, created, issued>>
       ELSE /\ login' = [pc |-> "apply", id |-> req.AccountID, created |-> FALSE,
                         proxy |-> req.Proxy]
            /\ lastOp' = Call("startLogin", req.AccountID, accounts[req.AccountID].Key,
                               FALSE, TRUE, FALSE)
            /\ UNCHANGED <<regVars, created, issued>>
    /\ lastLaunch' = NoLaunch
    /\ UNCHANGED <<liveVars, disk, listed, launchers, newCall, inst, socksBridge, mgr>>

\* startLoginHandler: ApplyProxyConfig(acc.ID, pcfg), whose error is only logged
startLoginApply ==
    /\ login.pc = "apply"
    /\ \E ok \in BOOLEAN :
          /\ accounts' = [accounts EXCEPT
                             ![login.id] = AppliedProxyConfig(@, buildProxyConfig(login.proxy, "", "", 0, "", ""))]
          /\ saveLocked(accounts', nextID, ok)
    /\ login' = [login EXCEPT !.pc = "LoginAndWait"]
    /\ UNCHANGED <<keyIndex, nextID, created, issued, lastOp, lastLaunch, liveVars, disk, listed,
                   launchers, newCall, inst, socksBridge, mgr>>

\* startLoginHandler from LoginAndWait on: with nil, saveCookies has
\* written the cookie file and called MarkLoggedIn; with an error the
\* handler calls s.accounts.Delete(acc.ID) and answers LOGIN_FAILED
LoginAndWait ==
    /\ login.pc = "LoginAndWait"
    /\ \E outcome \in LoginOutcomes :
          LET acc == accounts[login.id]
              rm == osRemove(disk, acc.CookiePath)
              rmAll == osRemoveAll(rm.disk, acc.ProfilePath)
          IN  IF outcome = "nil"
              THEN /\ disk' = WriteFile(MkdirAll(disk, acc.ProfilePath),
                                        GetCookiesFilePathForAccount(acc.Key))
                   /\ DoMarkLoggedIn(acc.Key)
                   /\ lastOp' = [lastOp EXCEPT !.err = FALSE]
              ELSE \E ok \in BOOLEAN :
                     /\ accounts' = Remove(accounts, login.id)
                     /\ keyIndex' = Remove(keyIndex, acc.Key)
                     /\ disk' = rmAll.disk
                     /\ saveLocked(accounts', nextID, ok)
                     /\ lastOp' = [lastOp EXCEPT !.err = TRUE]
                     /\ UNCHANGED nextID
    /\ login' = [login EXCEPT !.pc = "returned"]
    /\ UNCHANGED <<created, issued, lastLaunch, liveVars, listed, launchers, newCall, inst,
                   socksBridge, mgr>>

\* DELETE /api/v1/accounts/:id
deleteAccountHandler(id) ==
    /\ login.pc \in {"idle", "returned"}
    /\ Delete(id)

NextLogin ==
    \/ \E req \in LoginRequests : startLoginHandler(req)
    \/ startLoginApply
    \/ LoginAndWait
    \/ \E id \in IDs : deleteAccountHandler(id)

SpecLogin == Init /\ [][NextLogin]_vars

\* ------------------------------------------------- store edited outside
\* The JSON file is written by saveLocked and may be edited, or left
\* half-written, by something else; the next NewManager loads what is there.

\* the file with its next_id replaced; 0 is also what a file without the
\* field unmarshals to
StoreEdited(n) ==
    /\ store.exists
    /\ store.next_id # n
    /\ store' = [store EXCEPT !.next_id = n]
    /\ lastOp' = Call("StoreEdited", n, <<>>, FALSE, FALSE, FALSE)
    /\ lastLaunch' = NoLaunch
    /\ UNCHANGED <<accounts, keyIndex, nextID, writeFailures, created, issued, liveVars, disk,
                   otherVars>>

\* Create, explored while fewer than MaxID + 1 IDs were handed out
CreateAfterLoad ==
    /\ Len(issued) <= MaxID
    /\ Create(<<>>, "", "fpWin")

NextLoad ==
    \/ CreateAfterLoad
    \/ \E id \in IDs : Delete(id)
    \/ \E n \in 0..MaxID : StoreEdited(n)
    \/ Reload

SpecLoad == Init /\ [][NextLoad]_vars

\* ------------------------------------------------------ liveMu and m.mu
\* Window requests, which go through setLiveBrowser under liveMu, next to
\* registry reads, which hold m.mu of the Manager.

\* startAccountWindowHandler by a thread that is in no other call; its
\* Get(id) takes m.mu and gives it back before the window is launched
windowRequest(t, id) ==
    /\ mgr.pc[t] = "idle"
    /\ MuFree
    /\ startAccountWindowHandler(t, id)

\* Get(id): m.mu.Lock()
registryReadLock(t, id) ==
    /\ thr[t].pc = "idle"
    /\ mgr.pc[t] = "idle"
    /\ MuFree
    /\ mgr' = [mgr EXCEPT !.mu = t, !.pc[t] = "Get", !.acc[t] = id]
    /\ UNCHANGED <<regVars, created, issued, lastOp, lastLaunch, liveVars, disk, listed, launchers,
                   newCall, inst, socksBridge, login>>

\* Get(id): the lookup and the deferred m.mu.Unlock()
registryReadUnlock(t) ==
    /\ mgr.pc[t] = "Get"
    /\ mgr' = [mgr EXCEPT !.mu = 0, !.pc[t] = "idle", !.acc[t] = 0]
    /\ lastOp' = IF mgr.acc[t] \in DOMAIN accounts
                 THEN Call("Get", mgr.acc[t], accounts[mgr.acc[t]].Key, FALSE,
                           accounts[mgr.acc[t]].LoggedIn, FALSE)
                 ELSE Call("Get", mgr.acc[t], <<>>, TRUE, FALSE, FALSE)
    /\ UNCHANGED <<regVars, created, issued, lastLaunch, liveVars, disk, listed, launchers,
                   newCall, inst, socksBridge, login>>

NextLocks ==
    \/ CreateLocked(<<>>, "")
    \/ \E t \in Threads, id \in IDs : windowRequest(t, id)
    \/ \E t \in Threads : setLiveBrowserCloseOld(t)
    \/ \E t \in Threads : setLiveBrowserInstall(t)
    \/ \E t \in Threads : StartVisibleWindowReturn(t)
    \/ \E t \in Threads, id \in IDs : registryReadLock(t, id)
    \/ \E t \in Threads : registryReadUnlock(t)

SpecLocks == Init /\ [][NextLocks]_vars

\* ------------------------------------------------ Delete and live windows
\* Accounts are created and deleted through the handlers while windows
\* are opened for them; deleteAccountHandler calls Delete and nothing of
\* the service.

NextDeleteLive ==
    \/ Create(<<>>, "", "fpWin")
    \/ \E t \in Threads, id \in IDs : startAccountWindowHandler(t, id)
    \/ \E t \in Threads : setLiveBrowserCloseOld(t)
    \/ \E t \in Threads : setLiveBrowserInstall(t)
    \/ \E t \in Threads : StartVisibleWindowReturn(t)
    \/ \E id \in IDs : deleteAccountHandler(id)

SpecDeleteLive == Init /\ [][NextDeleteLive]_vars

\* ------------------------------------------------------------------ claims

\* C1: the accounts returned by Create on one registry instance, whatever
\* other registry calls (Delete included) come in between, have pairwise
\* distinct IDs, Keys ("acc_<ID>"), CookiePaths and ProfilePaths.
C1_CreateDistinct ==
    /\ \A i \in 1..Len(created) : created[i].Key = <<"acc_">> \o Itoa(created[i].ID)
    /\ \A i, j \in 1..Len(created) :
          i # j => /\ created[i].ID # created[j].ID
                   /\ created[i].Key # created[j].Key
                   /\ created[i].CookiePath # created[j].CookiePath
                   /\ created[i].ProfilePath # created[j].ProfilePath

\* two accounts created on one registry, the first of them deleted again
C1_Witness ==
    /\ Len(created) >= 2
    /\ created[1].ID \notin DOMAIN accounts
    /\ lastOp.op = "Create"

\* C8: no account ID is handed out twice in the lifetime of a store, across
\* Create, Delete and reloads of the registry from the store.
C8_IDNeverReused ==
    \A i, j \in 1..Len(issued) : i # j => issued[i] # issued[j]

\* C9: writing the registry to the store and loading the document into a
\* fresh registry gives the same accounts, field by field, and a next-ID
\* counter that is not lower than the saved one.
C9_RoundTrip ==
    LET m == load(StoreDocument(accounts, nextID))
    IN  /\ m.accounts = accounts
        /\ m.nextID >= nextID

\* a registry just loaded from the store it saved, holding an account with
\* set and with empty (omitted) fields
C9_Witness ==
    /\ lastOp.op = "Reload"
    /\ store = StoreDocument(accounts, nextID)
    /\ \E id \in DOMAIN accounts :
          /\ accounts[id].LoggedIn /\ accounts[id].LastLogin > 0
          /\ accounts[id].Proxy # <<>>
          /\ accounts[id].Name = ""

\* C10: MarkLoggedIn on a known key leaves LoggedIn = TRUE, and a second call
\* in a row changes nothing but LastLogin; on an unknown key it changes no
\* account, no index entry and not the next-ID counter, and reports no error.
C10_MarkLoggedInIdempotent ==
    [][\A k \in KeyInputs :
         MarkLoggedIn(k) =>
           IF k \in DOMAIN keyIndex
           THEN /\ accounts'[keyIndex[k]].LoggedIn
                /\ ~lastOp'.err
                /\ (lastOp.op = "MarkLoggedIn" /\ lastOp.key = k) =>
                      /\ accounts' = [accounts EXCEPT ![keyIndex[k]].LastLogin =
                                                        accounts'[keyIndex[k]].LastLogin]
                      /\ keyIndex' = keyIndex
                      /\ nextID' = nextID
           ELSE /\ accounts' = accounts
                /\ keyIndex' = keyIndex
                /\ nextID' = nextID
                /\ store' = store
                /\ ~lastOp'.err]_vars

\* the second of two MarkLoggedIn calls in a row on a known key has returned
C10_Witness ==
    /\ lastOp.op = "MarkLoggedIn"
    /\ lastOp.same
    /\ lastOp.was
    /\ lastOp.id \in DOMAIN accounts
    /\ accounts[lastOp.id].LoggedIn

\* C5: UpdateProxy and ApplyProxyConfig on an existing account that was
\* logged in leave it with LoggedIn = FALSE, whatever the arguments.
C5_ProxyChangeResetsLogin ==
    (lastOp.op \in {"UpdateProxy", "ApplyProxyConfig"} /\ lastOp.id \in DOMAIN accounts /\ lastOp.was)
        => ~accounts[lastOp.id].LoggedIn

\* UpdateProxy with the stored proxy and name has returned for a logged-in account
C5_Witness ==
    /\ lastOp.op = "UpdateProxy"
    /\ lastOp.id \in DOMAIN accounts
    /\ lastOp.was
    /\ lastOp.same
    /\ accounts[lastOp.id].Proxy # <<>>

\* C6 as stated: SetName on an existing logged-in account leaves LoggedIn = FALSE.
C6_SetNameResetsLogin ==
    (lastOp.op = "SetName" /\ lastOp.id \in DOMAIN accounts /\ lastOp.was)
        => ~accounts[lastOp.id].LoggedIn

\* C6 amended: SetName changes only the Name of the account; LoggedIn keeps
\* the value it had before the call.
C6_SetNameKeepsLogin ==
    [][\A n \in Names :
         (SetName(1, n) /\ 1 \in DOMAIN accounts)
             => accounts' = [accounts EXCEPT ![1].Name = n]]_vars

\* SetName has given a logged-in account another name
C6_Witness ==
    /\ lastOp.op = "SetName"
    /\ lastOp.id \in DOMAIN accounts
    /\ lastOp.was
    /\ ~lastOp.same
    /\ accounts[lastOp.id].LoggedIn

\* C7: a launch for an account whose stored proxy is a socks5 URL starts a
\* bridge and gives Chrome the bridge's http://127.0.0.1:<port> address.
C7_SocksAlwaysBridged ==
    (lastLaunch.id # 0 /\ ~lastLaunch.err /\ Scheme(lastLaunch.stored) = "socks5")
        => /\ lastLaunch.bridge
           /\ Scheme(lastLaunch.proxy) = "http"
           /\ lastLaunch.proxy[3] = "127.0.0.1"

\* C2: after any sequence of setLiveBrowser calls on one key with pairwise
\* distinct Browsers, sequential or interleaved across threads,
\* getLiveBrowser returns the Browser stored last, every other stored
\* Browser has been closed exactly once and was closed before its
\* replacement became the registered one, the registered one is open
\* whenever liveMu is free, no Browser is ever closed twice, and at most one
\* caller that has left setLiveBrowser finds its own Browser registered.
C2_LiveExclusive ==
    /\ \A b \in DOMAIN browsers : browsers[b].closes <= 1
    /\ \A k \in {installed[i].key : i \in DOMAIN installed} :
          LET seq == InstalledFor(k)
              last == seq[Len(seq)].b
          IN  /\ getLiveBrowser(k) = last
              /\ \A i, j \in 1..Len(seq) : i # j => seq[i].b # seq[j].b
              /\ \A i \in 1..(Len(seq) - 1) : browsers[seq[i].b].closes = 1
              /\ liveMu = 0 => browsers[last].closes = 0
              /\ Cardinality({t \in Threads : thr[t].pc = "append" /\ thr[t].key = k
                                               /\ getLiveBrowser(k) = thr[t].b}) <= 1

\* two overlapping replacements: one caller has stored the second Browser
\* and not yet returned, the other has closed that Browser and is about to
\* store the third
C2_Witness ==
    \E t, u \in Threads :
        /\ thr[t].pc = "append"
        /\ thr[u].pc = "install"
        /\ Len(installed) = 2
        /\ installed[2].b = thr[t].b
        /\ browsers[installed[1].b].closes = 1
        /\ browsers[installed[2].b].closes = 1

\* C3: two concurrent startAccountWindow calls for one account end with
\* exactly one window registered as live and open and the other closed, and
\* in no reachable state are two windows of one account open together.
C3_OneWindowPerAccount ==
    \A id \in DOMAIN accounts :
        LET k == accounts[id].Key
            open == {b \in DOMAIN browsers : /\ browsers[b].key = k
                                             /\ browsers[b].visible
                                             /\ browsers[b].closes = 0}
        IN  /\ Cardinality(open) <= 1
            /\ ((\A t \in Threads : thr[t].pc = "idle") /\ getLiveBrowser(k) # NoBrowser)
                  => open = {getLiveBrowser(k)}

\* C4: no Browser is used after Close has run on it: no request and no
\* goroutine opens a page on it, drives one of its pages or reads its cookies.
C4_NeverUsedAfterClose == \A b \in DOMAIN browsers : ~browsers[b].misused

\* C11: Delete(id) of an existing account removes the account from the
\* registry, by ID and by Key, and leaves neither its cookie file nor its
\* profile directory behind; it returns an error exactly when the store
\* write failed, so it succeeds when the cookie file or the profile
\* directory does not exist, also directly after Create("", "").  Delete of
\* an unknown ID returns NotFound and changes nothing.
C11_DeleteBestEffort ==
    [][\A id \in IDs : Delete(id) =>
          IF id \in DOMAIN accounts
          THEN /\ id \notin DOMAIN accounts'
               /\ accounts[id].Key \notin DOMAIN keyIndex'
               /\ accounts[id].CookiePath \notin disk'
               /\ accounts[id].ProfilePath \notin disk'
               /\ lastOp'.err <=> writeFailures' # writeFailures
          ELSE /\ lastOp'.err
               /\ UNCHANGED <<regVars, disk>>]_vars

\* Delete has succeeded on the account that Create("", "") made last, for a
\* request that has not launched its browser yet, with no cookie file and
\* no profile directory on disk
C11_Witness ==
    /\ lastOp.op = "Delete"
    /\ ~lastOp.err
    /\ lastOp.same
    /\ lastOp.id \notin DOMAIN accounts
    /\ lastOp.key \notin DOMAIN keyIndex
    /\ created # <<>>
    /\ created[Len(created)].ID = lastOp.id
    /\ \E t \in Threads : thr[t].pc = "newBrowser" /\ thr[t].key = lastOp.key

\* C12: List returns independent copies: whatever a caller writes into a
\* returned Account, the Fingerprint it refers to included, the accounts
\* the registry holds stay as they were.
C12_ListIndependent ==
    [][(\/ \E id \in IDs, n \in Names : CallerSetsName(id, n)
        \/ \E id \in IDs : CallerSetsFingerprint(id, "fpMac")
        \/ \E id \in IDs : CallerEditsFingerprint(id, EditedFingerprint))
       => UNCHANGED regVars]_vars

\* C13: the Fingerprint of an account is the one Create gave it: no step of
\* UpdateProxy, ApplyProxyConfig, SetName or MarkLoggedIn and no reload of
\* the store changes the Fingerprint of an account that exists before and
\* after the step.
C13_FingerprintFixed ==
    [][\A id \in DOMAIN accounts \cap DOMAIN accounts' :
          accounts'[id].Fingerprint = accounts[id].Fingerprint]_vars

\* an account with the second fingerprint of the pool that was renamed,
\* given a structured proxy, logged in and then loaded from the store
C13_Witness ==
    /\ lastOp.op = "Reload"
    /\ 1 \in DOMAIN accounts
    /\ accounts[1].Fingerprint = "fpMac"
    /\ accounts[1].Name # ""
    /\ accounts[1].ProxyType = "socks5"
    /\ accounts[1].LoggedIn

\* C14: the raw proxy string and the structured proxy fields of every
\* account describe the same proxy after every Create, UpdateProxy and
\* ApplyProxyConfig: a non-empty raw string parses to the stored type, host,
\* port, user and pass, and stored fields of a type other than direct with
\* host and port synthesize the stored raw string.
C14_ProxyInSync ==
    \A id \in DOMAIN accounts :
        LET acc == accounts[id]
            parsed == buildProxyConfig(acc.Proxy, "", "", 0, "", "")
        IN  /\ acc.Proxy # <<>> =>
                  /\ acc.ProxyType = parsed.Type
                  /\ acc.ProxyHost = parsed.Host
                  /\ acc.ProxyPort = parsed.Port
                  /\ acc.ProxyUser = parsed.User
                  /\ acc.ProxyPass = parsed.Pass
            /\ (acc.ProxyType \notin {"", "direct"} /\ acc.ProxyHost # "" /\ acc.ProxyPort > 0) =>
                  acc.Proxy = ProxyURL(acc.ProxyType, acc.ProxyUser, acc.ProxyPass,
                                       acc.ProxyHost, acc.ProxyPort)

\* C15: a launch for an account whose stored proxy has a scheme that is
\* none of direct, http, https and socks5 fails with an error; Chrome is
\* started neither with that proxy nor without one.
C15_UnsupportedSchemeFails ==
    (lastLaunch.id # 0 /\ lastLaunch.stored # <<>>
        /\ Scheme(lastLaunch.stored) \notin SupportedSchemes)
        => lastLaunch.err

\* C16: every Browser launched for one operation is closed exactly once
\* when the operation and its goroutine have ended, never twice, whichever
\* way the operation ends; a live window stays open while it is the
\* registered one.
C16_OneShotClosedOnce ==
    /\ \A b \in DOMAIN browsers : browsers[b].closes <= 1
    /\ \A b \in DOMAIN browsers :
          (/\ ~browsers[b].visible
           /\ \A t \in Threads : thr[t].b # b
           /\ browsers[b].task \in {"none", "done"})
             => browsers[b].closes = 1
    /\ liveMu = 0 =>
          \A k \in DOMAIN liveByAccount :
              getLiveBrowser(k) # NoBrowser => browsers[getLiveBrowser(k)].closes = 0

\* C17: when resolveAccount is called for a session key that is not
\* "default" and that the registry does not know, it returns an error and
\* the registry is left as it was: no account is created.
C17_UnknownKeyNotFound ==
    [][\A t \in Threads :
          (/\ newBrowser(t)
           /\ ~IsDefaultKey(thr[t].key)
           /\ thr[t].key \notin DOMAIN keyIndex)
             => /\ lastOp'.err
                /\ accounts' = accounts
                /\ created' = created]_vars

\* C18: a request for the default account, made through bindAccountContext
\* with ID 1 or through a context without an account, that succeeds leaves
\* account 1 in the registry and works on account 1; when account 1 is
\* already there it creates nothing.
C18_DefaultIsAccountOne ==
    [][\A t \in Threads :
          /\ (bindAccountContext(t, 1) /\ ~lastOp'.err)
                => /\ 1 \in DOMAIN accounts'
                   /\ lastOp'.key = AccountKey(1)
                   /\ 1 \in DOMAIN accounts => created' = created
          /\ (newBrowser(t) /\ IsDefaultKey(thr[t].key) /\ ~lastOp'.err)
                => /\ 1 \in DOMAIN accounts'
                   /\ lastOp'.id = 1
                   /\ 1 \in DOMAIN accounts => created' = created]_vars

\* C19: a call of New makes at most 2 launch attempts, numbered 1 and 2;
\* every attempt before the last one failed, so the second is made only
\* after a failed first and nothing follows a successful attempt; the loop
\* is left only after a success or after the second attempt; and a call
\* that returns after two failed attempts returns the error of the second
\* attempt and no Browser.
C19_TwoAttempts ==
    /\ \A c \in 1..newCall.n :
          LET ls == LaunchersOf(c)
          IN  /\ Len(ls) <= 2
              /\ \A i \in 1..Len(ls) : ls[i].attempt = i
              /\ \A i \in 1..(Len(ls) - 1) : ls[i].err # NilErr
    /\ LET ls == LaunchersOf(newCall.n)
       IN  /\ (newCall.pc = "afterLoop" \/ (newCall.l # NoLauncher /\ newCall.pc = "returned"))
                 => /\ Len(ls) >= 1
                    /\ ls[Len(ls)].err = NilErr \/ Len(ls) = 2
           /\ (newCall.pc = "returned" /\ Len(ls) >= 1 /\ ls[Len(ls)].err # NilErr)
                 => /\ Len(ls) = 2
                    /\ newCall.err = ls[2].err
                    /\ newCall.browser = NoLauncher

\* New has returned after two attempts that failed with different errors
C19_Witness ==
    /\ newCall.pc = "returned"
    /\ Len(LaunchersOf(newCall.n)) = 2
    /\ LaunchersOf(newCall.n)[1].err = "errExec"
    /\ LaunchersOf(newCall.n)[2].err = "errTimeout"
    /\ newCall.err = "errTimeout"
    /\ newCall.browser = NoLauncher

\* C20: when New has returned an error, every launcher of the call that
\* started a Chromium process has been given to cleanupLauncher (Kill or
\* Cleanup), the launcher of a failed first attempt included.
C20_FailedLaunchersCleaned ==
    (newCall.pc = "returned" /\ newCall.err # NilErr)
       => \A i \in DOMAIN launchers :
             (launchers[i].call = newCall.n /\ launchers[i].started)
                => launchers[i].cleaned # "none"

\* C21: New starts no launch attempt, first or second, while the caller's
\* context is cancelled or has expired.
C21_NoAttemptAfterCancel == [][LaunchAttempt => ~CtxDone(newCall.left)]_vars

\* C22: every launch attempt runs under a timeout of AttemptTimeout seconds
\* whatever is left of the caller's deadline, and an attempt fails with a
\* timeout only when Chromium needed longer than that: a launch that needs
\* less is not failed by the caller's context being done or nearly done.
C22_FreshAttemptTimeout ==
    /\ \A i \in DOMAIN launchers : launchers[i].timeout = AttemptTimeout
    /\ newCall.l # NoLauncher =>
          (launchers[newCall.l].err = "errTimeout" <=>
              (newCall.need > AttemptTimeout /\ launchers[newCall.l].err # "errExec"))

\* a second attempt that needed 10 seconds has succeeded although the
\* caller's deadline had passed before it began
C22_Witness ==
    /\ newCall.pc = "afterLoop"
    /\ newCall.attempt = 2
    /\ newCall.need = 10
    /\ CtxDone(newCall.left)
    /\ launchers[newCall.l].err = NilErr
    /\ launchers[newCall.l - 1].err = "errTimeout"

\* C23: when the launch and rb.Connect() have succeeded, New returns a
\* Browser whatever the state of the cookie file; the Browser has cookies
\* only when the file loaded.
C23_CookiesNeverFatal ==
    (newCall.pc = "returned" /\ newCall.connected)
       => /\ newCall.browser # NoLauncher
          /\ newCall.err = NilErr
          /\ newCall.loaded <=> newCall.cookie = "ok"

\* C24: once Close has returned on the Browser that New returned, the
\* launcher's user-data-dir is gone when the caller gave no profile
\* directory, and when the caller gave one the directory is still there
\* and the launcher was killed; until Close is called the directory exists
\* in both cases.
C24_CloseKeepsCallerProfile ==
    (inst.pc # "none" /\ newCall.pc = "returned" /\ newCall.browser = inst.launcher)
       => LET l == launchers[inst.launcher]
          IN  /\ l.dataDir = (IF newCall.dir = <<>> THEN TempDir(inst.launcher) ELSE newCall.dir)
              /\ inst.pc = "open" => (l.dataDir \in disk /\ l.cleaned = "none")
              /\ inst.pc = "closed" =>
                    IF newCall.dir = <<>>
                    THEN /\ l.cleaned = "Cleanup"
                         /\ \A f \in disk : ~IsPrefix(l.dataDir, f)
                    ELSE /\ l.cleaned = "Kill"
                         /\ newCall.dir \in disk

\* Close has returned on a Browser launched on an account's profile
\* directory
C24_Witness ==
    /\ inst.pc = "closed"
    /\ newCall.pc = "returned"
    /\ newCall.browser = inst.launcher
    /\ newCall.dir = ProfilePathFor(AccountKey(1))
    /\ launchers[inst.launcher].cleaned = "Kill"
    /\ newCall.dir \in disk

\* C25: Close never calls through an unset browser handle, launcher or
\* bridge, and a Close that waits for the bridge's stop function always
\* returns, also when that function never completes.
C25_CloseReturns ==
    /\ [](~inst.panicked)
    /\ (inst.pc = "bridgeWait") ~> (inst.pc = "closed")

\* Close has returned on an instance that has only a bridge, whose stop
\* function is stuck
C25_Witness ==
    /\ inst.pc = "closed"
    /\ inst.bridge = "stuck"
    /\ ~inst.viaDone
    /\ ~inst.browser
    /\ inst.launcher = NoLauncher
    /\ ~inst.panicked

\* C26: however the calls of stop are ordered or interleaved, and whether
\* or not the serve goroutine has run yet, server.Shutdown and ln.Close
\* run at most once each, one call at a time runs them, every call of stop
\* that has returned finds both done exactly once, and the server does not
\* serve after Shutdown.
C26_StopIdempotent ==
    /\ socksBridge.shutdowns <= 1
    /\ socksBridge.lnCloses <= 1
    /\ Cardinality({t \in Threads : socksBridge.pc[t] \in {"Shutdown", "lnClose"}}) <= 1
    /\ \A t \in Threads :
          Len(socksBridge.returns[t]) > 0
             => (socksBridge.shutdowns = 1 /\ socksBridge.lnCloses = 1)
    /\ socksBridge.serve = "serving" => socksBridge.shutdowns = 0

\* one thread has called stop twice, one call after the other, another
\* thread called it while the first call was running and once more later,
\* and the serve goroutine got to run only after the shutdown
C26_Witness ==
    \E t, u \in Threads :
        /\ socksBridge.returns[t] = <<"ran", "skipped">>
        /\ socksBridge.returns[u] = <<"waited", "skipped">>
        /\ socksBridge.serve = "refused"
        /\ socksBridge.shutdowns = 1
        /\ socksBridge.lnCloses = 1

\* C27: in every step in which an account's LoggedIn turns from FALSE to
\* TRUE the cookie file of the account's key has been written and the
\* registry was then given to saveLocked (the store holds it unless that
\* write failed); a saveCookies that returns an error leaves every account
\* as it was.
C27_LoggedInAfterCookies ==
    [][/\ \A id \in DOMAIN accounts \cap DOMAIN accounts' :
             (~accounts[id].LoggedIn /\ accounts'[id].LoggedIn)
                => /\ lastOp'.op = "saveCookies"
                   /\ ~lastOp'.err
                   /\ GetCookiesFilePathForAccount(accounts[id].Key) \in disk'
                   /\ \/ store' = StoreDocument(accounts', nextID')
                      \/ writeFailures' = writeFailures + 1
       /\ (lastOp'.op = "saveCookies" /\ lastOp'.err /\ lastOp' # lastOp)
             => accounts' = accounts]_vars

\* saveCookies has returned without an error for an account that is now
\* logged in, with its cookie file on disk and the store up to date
C27_Witness ==
    /\ lastOp.op = "saveCookies"
    /\ ~lastOp.err
    /\ lastOp.key \in DOMAIN keyIndex
    /\ accounts[keyIndex[lastOp.key]].LoggedIn
    /\ GetCookiesFilePathForAccount(lastOp.key) \in disk
    /\ store = StoreDocument(accounts, nextID)

\* C28: GetLoginQrcode has returned when its goroutine waits for the login
\* (no request holds the Browser), and once that wait has seen the login,
\* with the cookie file writable, the account of the request is logged in.
C28_QrLoginMarksAccount ==
    \A b \in DOMAIN browsers :
        /\ browsers[b].task = "QrWaitForLogin" => \A t \in Threads : thr[t].b # b
        /\ (browsers[b].wait = "seen" /\ browsers[b].key \in DOMAIN keyIndex)
              => accounts[keyIndex[browsers[b].key]].LoggedIn

\* C29: calls that write an account are serialized by the registry lock,
\* and no thread is reading the fields of an account, got from Get or
\* GetByKey, while another thread is in a call that writes that account.
C29_AccessUnderLock ==
    \A r \in Threads, w \in Threads :
        (r # w /\ mgr.pc[w] \in {"writeProxy", "writeRest"})
           => /\ mgr.pc[r] \notin {"writeProxy", "writeRest"}
              /\ mgr.pc[r] \in {"readProxy", "readRest"} => mgr.acc[r] # mgr.acc[w]

\* C30: when a call of Create, UpdateProxy, ApplyProxyConfig, SetName or
\* Delete fails to write the store, the call returns an error.
C30_WriteErrorReturned ==
    [][(writeFailures' > writeFailures
          /\ lastOp'.op \in {"Create", "UpdateProxy", "ApplyProxyConfig", "SetName", "Delete"})
       => lastOp'.err]_vars

\* a SetName of an account that exists has returned the error of a failed write
C30_Witness ==
    /\ lastOp.op = "SetName"
    /\ lastOp.id \in DOMAIN accounts
    /\ lastOp.err
    /\ writeFailures > 0

\* C31: a browser that newBrowser launches is headless as the context's
\* override says when there is one, and as the global default says when
\* there is none; an override of false gives a window whatever the default.
C31_HeadlessOverride ==
    lastLaunch.id # 0
       => /\ lastLaunch.override = "nil" => lastLaunch.headless = lastLaunch.isHeadless
          /\ lastLaunch.override = "false" => ~lastLaunch.headless
          /\ lastLaunch.override = "true" => lastLaunch.headless

\* a launch with an override of false under a headless default
C31_Witness ==
    /\ lastLaunch.id # 0
    /\ lastLaunch.override = "false"
    /\ lastLaunch.isHeadless
    /\ ~lastLaunch.headless

\* C32: when a start-login request that created its account has returned,
\* the account is in the registry, whether the login succeeded or not, so
\* that a DELETE of its ID finds it.
C32_CreatedAccountKept ==
    (login.pc = "returned" /\ login.created /\ lastOp.op = "startLogin")
       => login.id \in DOMAIN accounts

\* C38: when a start-login request that named an account which existed
\* already has returned, that account is still in the registry, also when
\* the login failed or timed out.
C38_NamedAccountKept ==
    (login.pc = "returned" /\ ~login.created /\ login.id # 0 /\ lastOp.op = "startLogin")
       => login.id \in DOMAIN accounts

\* C33: right after a load, the next-ID counter is 1 for a missing store
\* and for one without accounts and without a positive next_id, else the
\* larger of the stored next_id and the largest stored ID plus one; and
\* Create never hands out an ID that the registry holds.
C33_NextIDAfterLoad ==
    /\ [](lastOp.op = "Reload"
            => LET ids == {o["id"] : o \in store.accounts}
                   top == IF ids = {} THEN 0 ELSE CHOOSE i \in ids : \A j \in ids : j <= i
               IN  IF ~store.exists \/ (ids = {} /\ store.next_id <= 0) THEN nextID = 1
                   ELSE nextID = IF store.next_id > top + 1 THEN store.next_id ELSE top + 1)
    /\ [][(lastOp'.op = "Create" /\ nextID' = nextID + 1) => lastOp'.id \notin DOMAIN accounts]_vars

\* a store whose next_id is not above the ID of an account it holds has
\* been loaded, and the counter is past that account
C33_Witness ==
    /\ lastOp.op = "Reload"
    /\ store.exists
    /\ \E o \in store.accounts : store.next_id <= o["id"] /\ nextID = o["id"] + 1

\* C34: no thread holds liveMu and the registry lock together, and while
\* a thread holds liveMu inside setLiveBrowser, every thread that is in no
\* call can take the registry lock for a read as soon as that lock is free.
C34_LocksNotNested ==
    /\ \A t \in Threads : ~(liveMu = t /\ mgr.mu = t)
    /\ \A t \in Threads, u \in Threads :
          (liveMu = t /\ mgr.mu = 0 /\ thr[u].pc = "idle" /\ mgr.pc[u] = "idle")
             => \A id \in IDs : ENABLED registryReadLock(u, id)

\* one thread holds liveMu in setLiveBrowser, having closed the old window
\* of the account, while another holds the registry lock for a read
C34_Witness ==
    \E t \in Threads, u \in Threads :
        /\ liveMu = t
        /\ thr[t].pc = "install"
        /\ \E b \in DOMAIN browsers : browsers[b].key = thr[t].key /\ browsers[b].closes > 0
        /\ mgr.mu = u

\* C35: a call of Create, UpdateProxy, SetName, ApplyProxyConfig or Delete
\* that returns the error of a failed store write leaves accounts, keyIndex
\* and nextID as they were before the call.
C35_FailedWriteChangesNothing ==
    [][(writeFailures' > writeFailures /\ lastOp'.err
          /\ lastOp'.op \in {"Create", "UpdateProxy", "SetName", "ApplyProxyConfig", "Delete"})
       => UNCHANGED <<accounts, keyIndex, nextID>>]_vars

\* C36: when an operation's saveCookies succeeds right after newBrowser
\* resolved the account of its context key, the cookie file is at the
\* CookiePath of the account resolveAccount returned and that account is
\* marked LoggedIn, whatever the key.
C36_CookiesOfResolvedAccount ==
    [][\A t \in Threads :
          (/\ thr[t].pc = "saveCookies" /\ thr'[t].pc = "idle"
           /\ \A u \in Threads \ {t} : thr[u].pc # "saveCookies"
           /\ lastOp.op = "resolveAccount" /\ ~lastOp.err /\ ~lastLaunch.err
           /\ lastOp'.op = "saveCookies" /\ ~lastOp'.err)
          => /\ lastOp.id \in DOMAIN accounts'
             /\ accounts[lastOp.id].CookiePath \in disk'
             /\ accounts'[lastOp.id].LoggedIn]_vars

\* C37: when New has started a socks bridge and returns an error, after
\* two failed launch attempts or a failed connect, the bridge's listener
\* is no longer listening.
C37_NoBridgeAfterFailedNew ==
    (newCall.pc = "returned" /\ newCall.err # NilErr /\ newCall.bridge = "stops")
        => ~newCall.listening

\* C39: when Delete(id) of an existing account returns nil, the live
\* session map holds no Browser under the key of the deleted account.
C39_NoLiveBrowserAfterDelete ==
    [][(lastOp'.op = "Delete" /\ ~lastOp'.err /\ lastOp'.id \in DOMAIN accounts
          /\ lastOp'.id \notin DOMAIN accounts')
       => lastOp'.key \notin DOMAIN liveByAccount']_vars

\* C40: in every state reached by registry calls and reloads from an empty
\* store, each account is stored under its own ID with Key "acc_<ID>", the
\* key index maps exactly the Keys of the stored accounts to them, and
\* every stored ID is below the next-ID counter.
C40_MapsAgree ==
    /\ \A id \in DOMAIN accounts :
          /\ accounts[id].ID = id
          /\ accounts[id].Key = <<"acc_">> \o Itoa(id)
          /\ accounts[id].Key \in DOMAIN keyIndex
          /\ keyIndex[accounts[id].Key] = id
          /\ id < nextID
    /\ \A k \in DOMAIN keyIndex :
          /\ keyIndex[k] \in DOMAIN accounts
          /\ accounts[keyIndex[k]].Key = k

\* one of two accounts has been deleted and the other is still indexed
C40_Witness ==
    /\ lastOp.op = "Delete"
    /\ lastOp.id \notin DOMAIN accounts
    /\ lastOp.key # <<>>
    /\ lastOp.key \notin DOMAIN keyIndex
    /\ \E id \in DOMAIN accounts : id # lastOp.id /\ keyIndex[accounts[id].Key] = id
    /\ Len(created) >= 2

====
